---- MODULE Spec2Model ----
(***************************************************************************)
(* Model of the mdps-tropess-deploy command line tools: identifier         *)
(* derivation (tropess_deploy/data/tool.py), data-services initialisation  *)
(* (init_data_services.py), catalog queries and reports (query_data.py)    *)
(* and workflow triggering (trigger_app.py).  Each tool run is one action: *)
(* it draws the command's inputs and the answers of the external services  *)
(* (data platform, S3, parameter store, workflow engine), runs the handler *)
(* as the code does, and records the external calls it issued, in order,   *)
(* what it logged, and how it ended.                                       *)
(***************************************************************************)
EXTENDS Integers, Sequences, FiniteSets, TLC

VARIABLES
    mdps_project,   \* MdpsTool.mdps_project (environment PROJECT)
    mdps_venue,     \* MdpsTool.mdps_venue (environment VENUE)
    op,             \* the operation the last run executed ("idle" before any)
    args,           \* its arguments
    env,            \* what the external services answered during the run
    calls,          \* the external calls the run issued, in order
    logs,           \* what the run logged or printed, in order
    err,            \* the exception that ended the run (NoError if none)
    value           \* what the operation returned

vars == <<mdps_project, mdps_venue, op, args, env, calls, logs, err, value>>

(***************************************************************************)
(* Bounds of the model.                                                    *)
(***************************************************************************)
MaxShortNames == 2      \* longest short-name list given to mdps_collection_ids
MaxFeatures == 3        \* most features in a STAC query result
MaxCollections == 2     \* most collections the platform lists
MaxCatalogs == 3        \* most collection ids a report or a file batch goes through

(***************************************************************************)
(* Outcomes of a run.  A run is [calls, logs, err, val].                   *)
(***************************************************************************)
NoError == [type |-> "none", msg |-> ""]
None == "None"              \* Python's None / JSON null where a string may stand
NoObject == [none |-> TRUE] \* Python's None where an object may stand

Raise(type, msg) == [type |-> type, msg |-> msg]
Run(c, l, e, v) == [calls |-> c, logs |-> l, err |-> e, val |-> v]
Failed(r) == r.err.type # "none"

Call(name, target) == [call |-> name, target |-> target]

SeqToSet(s) == {s[i] : i \in 1..Len(s)}
CallNames(cs) == {cs[i].call : i \in 1..Len(cs)}
CountCalls(cs, name) == Cardinality({i \in 1..Len(cs) : cs[i].call = name})

RECURSIVE Flatten(_)
Flatten(ss) == IF ss = <<>> THEN <<>> ELSE Head(ss) \o Flatten(Tail(ss))

(***************************************************************************)
(* Sequencing of code with exceptions.                                     *)
(***************************************************************************)
Min(S) == CHOOSE x \in S : \A y \in S : x <= y

Ok(v) == Run(<<>>, <<>>, NoError, v)
Throw(type, msg) == Run(<<>>, <<>>, Raise(type, msg), None)
Log(msg, data) == Run(<<>>, << [msg |-> msg, data |-> data] >>, NoError, None)
Issue(name, target) == Run(<<Call(name, target)>>, <<>>, NoError, None)

\* r1 ; r2  (r2 is not run when r1 raised)
Then(r1, r2) ==
    IF Failed(r1) THEN r1
    ELSE Run(r1.calls \o r2.calls, r1.logs \o r2.logs, r2.err, r2.val)

\* v = r ; F(v)  (the rest of the code runs with the value r returned)
Bind(r, F(_)) == Then(r, F(r.val))

\* for i in 1..Len(runs): runs[i]  (stops at the first one that raises);
\* the value is the list of the values of the iterations that ran
Loop(runs) ==
    LET n == Len(runs)
        bad == {i \in 1..n : Failed(runs[i])}
        last == IF bad = {} THEN n ELSE Min(bad)
    IN Run(Flatten([i \in 1..last |-> runs[i].calls]),
           Flatten([i \in 1..last |-> runs[i].logs]),
           IF bad = {} THEN NoError ELSE runs[last].err,
           [i \in 1..last |-> runs[i].val])

(***************************************************************************)
(* Strings (Python str operations the code uses).                          *)
(***************************************************************************)
CharAt(s, i) == SubSeq(s, i, i)
StartsWith(s, prefix) == Len(s) >= Len(prefix) /\ SubSeq(s, 1, Len(prefix)) = prefix
EndsWith(s, suffix) ==
    Len(s) >= Len(suffix) /\ SubSeq(s, Len(s) - Len(suffix) + 1, Len(s)) = suffix

\* s.split(sep) for a one-character separator
RECURSIVE SplitFrom(_, _, _, _)
SplitFrom(s, sep, start, i) ==
    IF i > Len(s) THEN <<SubSeq(s, start, Len(s))>>
    ELSE IF CharAt(s, i) = sep
         THEN <<SubSeq(s, start, i - 1)>> \o SplitFrom(s, sep, i + 1, i + 1)
         ELSE SplitFrom(s, sep, start, i + 1)
Split(s, sep) == SplitFrom(s, sep, 1, 1)

\* s.replace(old, new) for a one-character old
RECURSIVE Replace(_, _, _)
Replace(s, old, new) ==
    IF Len(s) = 0 THEN ""
    ELSE (IF CharAt(s, 1) = old THEN new ELSE CharAt(s, 1))
         \o Replace(SubSeq(s, 2, Len(s)), old, new)

\* s.lstrip(c) and s.rstrip(c) for a one-character c
RECURSIVE LStrip(_, _)
LStrip(s, c) ==
    IF Len(s) > 0 /\ CharAt(s, 1) = c THEN LStrip(SubSeq(s, 2, Len(s)), c) ELSE s
RECURSIVE RStrip(_, _)
RStrip(s, c) ==
    IF Len(s) > 0 /\ CharAt(s, Len(s)) = c THEN RStrip(SubSeq(s, 1, Len(s) - 1), c) ELSE s

\* s.replace(old, new) for a non-empty old
RECURSIVE ReplaceStr(_, _, _)
ReplaceStr(s, old, new) ==
    IF Len(s) < Len(old) THEN s
    ELSE IF StartsWith(s, old)
    THEN new \o ReplaceStr(SubSeq(s, Len(old) + 1, Len(s)), old, new)
    ELSE CharAt(s, 1) \o ReplaceStr(SubSeq(s, 2, Len(s)), old, new)

\* s.find(sub): the 0-based index of the first occurrence, or -1
Find(s, sub) ==
    LET at == {i \in 1..(Len(s) + 1 - Len(sub)) : SubSeq(s, i, i + Len(sub) - 1) = sub}
    IN IF at = {} THEN -1 ELSE Min(at) - 1

\* os.path.join(a, b)
path_join(a, b) ==
    IF StartsWith(b, "/") THEN b
    ELSE IF Len(a) = 0 \/ EndsWith(a, "/") THEN a \o b
    ELSE a \o "/" \o b

Digits == <<"0", "1", "2", "3", "4", "5", "6", "7", "8", "9">>
IsDigit(c) == \E d \in 1..10 : Digits[d] = c
DigitVal(c) == (CHOOSE d \in 1..10 : Digits[d] = c) - 1
IsNumber(s) == Len(s) > 0 /\ \A i \in 1..Len(s) : IsDigit(CharAt(s, i))
RECURSIVE ParseNat(_)
ParseNat(s) ==
    IF Len(s) = 0 THEN 0
    ELSE 10 * ParseNat(SubSeq(s, 1, Len(s) - 1)) + DigitVal(CharAt(s, Len(s)))

\* "%0<w>d" % n
RECURSIVE ZeroPad(_, _)
ZeroPad(n, w) ==
    IF w = 0 THEN (IF n = 0 THEN "" ELSE ToString(n))
    ELSE ZeroPad(n \div 10, w - 1) \o Digits[(n % 10) + 1]

(***************************************************************************)
(* Dates: dateparser.parse and datetime.strftime("%Y-%m-%d").  The parser  *)
(* is modelled on the formats YYYY-MM-DD, YYYY-MM-DDThh:mm:ssZ, MM/DD/YYYY *)
(* and "Mon D YYYY"; any other string parses to None.                      *)
(***************************************************************************)
MonthNames == <<"Jan", "Feb", "Mar", "Apr", "May", "Jun",
                "Jul", "Aug", "Sep", "Oct", "Nov", "Dec">>

Date(y, m, d) == [year |-> y, month |-> m, day |-> d]
ValidDate(y, m, d) == y >= 1 /\ m \in 1..12 /\ d \in 1..31

dateparser_parse(s) ==
    LET day_part == IF Len(s) = 20 /\ CharAt(s, 11) = "T" THEN SubSeq(s, 1, 10) ELSE s
        dash == Split(day_part, "-")
        slash == Split(s, "/")
        words == Split(s, " ")
    IN IF /\ Len(dash) = 3
          /\ \A i \in 1..3 : IsNumber(dash[i])
          /\ Len(dash[1]) = 4
          /\ ValidDate(ParseNat(dash[1]), ParseNat(dash[2]), ParseNat(dash[3]))
       THEN Date(ParseNat(dash[1]), ParseNat(dash[2]), ParseNat(dash[3]))
       ELSE IF /\ Len(slash) = 3
               /\ \A i \in 1..3 : IsNumber(slash[i])
               /\ ValidDate(ParseNat(slash[3]), ParseNat(slash[1]), ParseNat(slash[2]))
       THEN Date(ParseNat(slash[3]), ParseNat(slash[1]), ParseNat(slash[2]))
       ELSE IF /\ Len(words) = 3
               /\ \E m \in 1..12 : MonthNames[m] = words[1]
               /\ IsNumber(words[2]) /\ IsNumber(words[3])
               /\ ValidDate(ParseNat(words[3]), 1, ParseNat(words[2]))
       THEN Date(ParseNat(words[3]),
                 CHOOSE m \in 1..12 : MonthNames[m] = words[1],
                 ParseNat(words[2]))
       ELSE NoObject

\* datetime.strftime("%Y-%m-%d")
strftime_ymd(dt) ==
    ZeroPad(dt.year, 4) \o "-" \o ZeroPad(dt.month, 2) \o "-" \o ZeroPad(dt.day, 2)

\* the date checked by the parser but passed on as it was written
normalize_date_as_given(d) ==
    IF dateparser_parse(d) = NoObject
    THEN Throw("AttributeError", "'NoneType' object has no attribute 'strftime'")
    ELSE Ok(d)

\* dateparser.parse(d).strftime("%Y-%m-%d"): AttributeError when d does not parse
normalize_date(d) ==
    IF dateparser_parse(d) = NoObject
    THEN Throw("AttributeError", "'NoneType' object has no attribute 'strftime'")
    ELSE Ok(strftime_ymd(dateparser_parse(d)))

(***************************************************************************)
(* DataTool.query_data_catalog.  date_range is a list of two strings, or   *)
(* NoRange for None; response is what get_collection_data returns.         *)
(***************************************************************************)
NoRange == <<>>

RangeFilter(start_date, stop_date) ==
    "processing_datetime>='" \o start_date \o "' and processing_datetime<='"
    \o stop_date \o "'"
DateFilter(processing_date) == "processing_datetime='" \o processing_date \o "'"

\* query_filter with the dates used as given
query_filter_as_given(processing_date, date_range) ==
    IF date_range # NoRange
    THEN IF Len(date_range) # 2 THEN Throw("ValueError", "unpack")
         ELSE Ok(RangeFilter(date_range[1], date_range[2]))
    ELSE IF processing_date # None THEN Ok(DateFilter(processing_date))
    ELSE Ok(None)

query_filter(processing_date, date_range) ==
    IF date_range # NoRange
    THEN LET dates == Loop([i \in 1..Len(date_range) |-> normalize_date(date_range[i])])
         IN IF Failed(dates)
            THEN Throw("AttributeError", "Invalid date range values")
            ELSE IF Len(date_range) # 2
            THEN Throw("ValueError", "unpack")
            ELSE Ok(RangeFilter(dates.val[1], dates.val[2]))
    ELSE IF processing_date # None
    THEN LET date == normalize_date(processing_date)
         IN IF Failed(date) THEN date ELSE Ok(DateFilter(date.val))
    ELSE Ok(None)

\* query_data_catalog taking an empty feature list for an error as well
query_data_catalog_nonempty(mdps_collection_id, processing_date, date_range, limit, response) ==
    Bind(query_filter(processing_date, date_range), LAMBDA filter :
    Then(Issue("get_collection_data",
               [collection_id |-> mdps_collection_id, filter |-> filter, limit |-> limit]),
         IF "features" \notin DOMAIN response \/ response.features = <<>>
         THEN Throw("Exception", "Error querying data catalog")
         ELSE Ok(response)))

query_data_catalog(mdps_collection_id, processing_date, date_range, limit, response) ==
    LET filter == query_filter(processing_date, date_range)
    IN Then(Log("Searching data catalog for MUSES data for collection", mdps_collection_id),
       Then(filter,
       Then(IF filter.val # None THEN Log("Query filter", filter.val) ELSE Ok(None),
       Then(Issue("get_collection_data",
                  [collection_id |-> mdps_collection_id, filter |-> filter.val, limit |-> limit]),
            IF "features" \notin DOMAIN response
            THEN Throw("Exception", "Error querying data catalog")
            ELSE Ok(response)))))

(***************************************************************************)
(* query_data.py: DataQuery                                                *)
(***************************************************************************)
\* the scan of get_constant_property from feature i on, prop_value being the
\* value kept so far (None before the first defining feature)
RECURSIVE constant_property_scan(_, _, _, _)
constant_property_scan(features, prop_name, i, prop_value) ==
    IF i > Len(features) THEN Ok(prop_value)
    ELSE LET feat == features[i]
         IN IF prop_name \notin DOMAIN feat.properties
            THEN Then(Log("does not define " \o prop_name, feat.id),
                      constant_property_scan(features, prop_name, i + 1, prop_value))
            ELSE LET curr_value == feat.properties[prop_name]
                 IN IF prop_value # None /\ prop_value # curr_value
                    THEN Throw("Exception",
                               prop_name \o " does not have a consistent value " \o curr_value
                               \o " for " \o feat.id \o ", expected " \o prop_value)
                    ELSE constant_property_scan(features, prop_name, i + 1, curr_value)

get_constant_property(stac, prop_name, required) ==
    IF "features" \notin DOMAIN stac THEN Ok(None)
    ELSE LET scan == constant_property_scan(stac.features, prop_name, 1, None)
         IN IF Failed(scan) THEN scan
            ELSE IF scan.val = None /\ required
            THEN Then(scan, Throw("Exception", "No datasets define the " \o prop_name \o " metadata"))
            ELSE scan

(***************************************************************************)
(* The product configuration (package tropess_product_spec): sensor sets   *)
(* and collection groups.  sensor_sets is the global keyword table; a      *)
(* group lists its sensor sets in insertion order, maps directory aliases  *)
(* to sensor sets, and lists its valid (product, sensor set, species)      *)
(* combinations.                                                           *)
(***************************************************************************)
SensorAirs == [keyword |-> "airs", short_name |-> "AIRS", alias |-> "AIRS_OMI"]
SensorCris == [keyword |-> "cris", short_name |-> "CrIS", alias |-> "CrIS_JPSS1"]

sensor_sets == ("airs" :> SensorAirs) @@ ("cris" :> SensorCris)

GroupSingle ==
    [keyword |-> "reanalysis", short_name |-> "Reanalysis",
     sensor_sets |-> <<SensorCris>>,
     sensor_set_mappings |-> ("CrIS_JPSS1" :> SensorCris) @@ ("airs" :> SensorCris),
     combinations |-> << <<"standard", "cris", "o3">>,
                         <<"summary", "cris", "co">> >>]

GroupMulti ==
    [keyword |-> "forward_stream", short_name |-> "Forward",
     sensor_sets |-> <<SensorAirs, SensorCris>>,
     sensor_set_mappings |-> ("AIRS_OMI" :> SensorAirs) @@ ("CrIS_JPSS1" :> SensorCris),
     combinations |-> << <<"standard", "airs", "o3">>,
                         <<"standard", "cris", "o3">>,
                         <<"summary", "cris", "co">> >>]

collection_groups == ("reanalysis" :> GroupSingle) @@ ("forward_stream" :> GroupMulti)

GroupKeywords == DOMAIN collection_groups

\* CollectionGroup.get_collection_group: the group of a keyword, or None
get_collection_group(keyword) ==
    IF keyword \in DOMAIN collection_groups THEN collection_groups[keyword] ELSE NoObject

\* tropess_product_spec.config.collection_group_combinations, filtered by one
\* group and optionally by sensor-set aliases: (group, product, sensor, species)
NoFilter == [any |-> TRUE, aliases |-> <<>>]            \* sensor_sets_filter=None
FilterBy(aliases) == [any |-> FALSE, aliases |-> aliases]
RECURSIVE FilterCombos(_, _, _)
FilterCombos(group, combos, sensor_filter) ==
    IF combos = <<>> THEN <<>>
    ELSE LET c == Head(combos)
             keep == \/ sensor_filter.any
                     \/ sensor_sets[c[2]].alias \in SeqToSet(sensor_filter.aliases)
         IN (IF keep THEN << <<group.keyword, c[1], c[2], c[3]>> >> ELSE <<>>)
            \o FilterCombos(group, Tail(combos), sensor_filter)

collection_group_combinations(group, sensor_filter) ==
    FilterCombos(group, group.combinations, sensor_filter)

\* tropess_product_spec.product_naming.format_short_name
format_short_name(group_kw, product_kw, sensor_kw, species_kw) ==
    "TRPS-" \o sensor_sets[sensor_kw].short_name \o "-" \o species_kw
            \o "-" \o product_kw \o "-" \o group_kw

(***************************************************************************)
(* DataTool: short names and collection identifiers.                       *)
(***************************************************************************)
collection_group_short_names(group, sensor_set) ==
    LET sensor_set_filter == IF sensor_set # NoObject
                             THEN FilterBy(<<sensor_set.alias>>) ELSE NoFilter
        combos == collection_group_combinations(group, sensor_set_filter)
    IN [i \in 1..Len(combos) |->
            format_short_name(combos[i][1], combos[i][2], combos[i][3], combos[i][4])]

\* muses_short_names taking no notice of the sensor set given
muses_short_names_unfiltered(group, sensor_set) ==
    [i \in 1..Len(group.sensor_sets) |->
        "MUSES-" \o group.sensor_sets[i].short_name \o "-" \o group.short_name]

muses_short_names(group, sensor_set) ==
    LET sensor_set_list == IF sensor_set # NoObject THEN <<sensor_set>> ELSE group.sensor_sets
    IN [i \in 1..Len(sensor_set_list) |->
            "MUSES-" \o sensor_set_list[i].short_name \o "-" \o group.short_name]

mdps_collection_ids(project, venue, tropess_short_names, collection_version) ==
    [i \in 1..Len(tropess_short_names) |->
        ("URN:NASA:UNITY:" \o project \o ":" \o venue \o ":")
        \o (tropess_short_names[i] \o "___" \o collection_version)]

\* the copy in the stand-alone script init_data_services.py
legacy_mdps_collection_ids(project, venue, tropess_short_names, collection_version) ==
    [i \in 1..Len(tropess_short_names) |->
        "urn:nasa:unity:" \o project \o ":" \o venue \o ":"
        \o tropess_short_names[i] \o "___" \o collection_version]

\* the copy in the stand-alone script init_data_services.py (keyword argument)
legacy_collection_group_short_names(collection_group_keyword) ==
    collection_group_short_names(collection_groups[collection_group_keyword], NoObject)

(***************************************************************************)
(* Answers of the REST services.  A batch of requests is answered by       *)
(* OkResponse up to request number `at`, which gets `resp` (at = 0: every  *)
(* request gets OkResponse); the requests after a raised error are never   *)
(* sent.                                                                   *)
(***************************************************************************)
OkResponse == [status_code |-> 200, attrs |-> {}, json_ok |-> TRUE]
BadResponses ==
    { [status_code |-> 500, attrs |-> {}, json_ok |-> TRUE],
      [status_code |-> 404, attrs |-> {}, json_ok |-> FALSE],
      [status_code |-> 500, attrs |-> {"message"}, json_ok |-> TRUE],
      [status_code |-> 200, attrs |-> {}, json_ok |-> FALSE] }
NoFault == [at |-> 0, resp |-> OkResponse]
Faults(n) == {NoFault} \cup [at : 1..n, resp : BadResponses]
RespAt(fault, i) == IF fault.at = i THEN fault.resp ELSE OkResponse

\* response.json()
response_json(response, what) ==
    IF response.json_ok THEN Ok([json_of |-> what])
    ELSE Throw("JSONDecodeError", "")

(***************************************************************************)
(* init_data_services.py: TropessDataInit                                  *)
(***************************************************************************)
\* register_mdps_collection_ids going on with the remaining ids after a failed call
register_mdps_collection_ids_resumed(ids, create_fail) ==
    Then(Loop([i \in 1..Len(ids) |->
                Then(Log("Registering collection id", ids[i]),
                     Issue("create_collection", ids[i]))]),
         IF create_fail \in 1..Len(ids) THEN Throw("SDKError", "create_collection")
         ELSE Log("collection ids requested", Len(ids)))

\* create_fail: the number of the create_collection call the SDK raises on (0: none)
register_mdps_collection_ids(ids, create_fail) ==
    Then(Loop([i \in 1..Len(ids) |->
                Then(Log("Registering collection id", ids[i]),
                Then(Issue("create_collection", ids[i]),
                     IF create_fail = i THEN Throw("SDKError", "create_collection") ELSE Ok(None)))]),
         Log("collection ids requested", Len(ids)))

\* registered: the collection ids the platform lists
check_registered_collection_ids(our_collection_ids, registered) ==
    IF Len(our_collection_ids) = 0
    THEN Log("No TROPESS collection ids to check", None)
    ELSE Then(Issue("get_collections", None),
              Loop([i \in 1..Len(our_collection_ids) |->
                    IF our_collection_ids[i] \in registered
                    THEN Log("created succesfully", our_collection_ids[i])
                    ELSE Log("is not registered with MDPS", our_collection_ids[i])]))

\* what the platform lists as registered, by the answer drawn for the run
RegisteredIds(ids, listing) ==
    CASE listing = "none" -> {}
      [] listing = "first" -> IF Len(ids) > 0 THEN {ids[1]} ELSE {}
      [] OTHER -> SeqToSet(ids)

\* register_collection_ids leaving the MUSES family out
register_collection_ids_tropess_only(project, venue, collection_group_keyword, granule_version, muses_collection_version, do_update, check_update, e) ==
    LET collection_group_obj == get_collection_group(collection_group_keyword)
    IN IF collection_group_obj = NoObject
       THEN Throw("AttributeError", "'NoneType' object has no attribute 'keyword'")
       ELSE
       LET tropess_short_names == collection_group_short_names(collection_group_obj, NoObject)
           ids == mdps_collection_ids(project, venue, tropess_short_names, granule_version)
       IN Then(IF do_update
               THEN register_mdps_collection_ids(ids, e.create_fail)
               ELSE Then(Log("Shortnames for collection group", tropess_short_names),
                         Log("Generated collection ids", ids)),
          Then(IF check_update
               THEN check_registered_collection_ids(ids, RegisteredIds(ids, e.listing))
               ELSE Ok(None),
               Ok(ids)))

register_collection_ids(project, venue, collection_group_keyword, granule_version, muses_collection_version, do_update, check_update, e) ==
    LET collection_group_obj == get_collection_group(collection_group_keyword)
    IN IF collection_group_obj = NoObject
       THEN Throw("AttributeError", "'NoneType' object has no attribute 'keyword'")
       ELSE
       LET tropess_short_names == collection_group_short_names(collection_group_obj, NoObject)
           muses_names == muses_short_names(collection_group_obj, NoObject)
           ids == mdps_collection_ids(project, venue, tropess_short_names, granule_version)
                  \o mdps_collection_ids(project, venue, muses_names, muses_collection_version)
       IN Then(IF do_update
               THEN register_mdps_collection_ids(ids, e.create_fail)
               ELSE Then(Log("Shortnames for collection group", tropess_short_names),
                         Log("Generated collection ids", ids)),
          Then(IF check_update
               THEN check_registered_collection_ids(ids, RegisteredIds(ids, e.listing))
               ELSE Ok(None),
               Ok(ids)))

\* the copy in the stand-alone script init_data_services.py: TROPESS ids only
legacy_register_collection_ids(project, venue, collection_group_keyword, granule_version, do_update, check_update, e) ==
    LET tropess_short_names == legacy_collection_group_short_names(collection_group_keyword)
        ids == legacy_mdps_collection_ids(project, venue, tropess_short_names, granule_version)
    IN Then(IF do_update
            THEN register_mdps_collection_ids(ids, e.create_fail)
            ELSE Then(Log("Shortnames for collection group", tropess_short_names),
                      Log("Generated collection ids", ids)),
       Then(IF check_update
            THEN check_registered_collection_ids(ids, RegisteredIds(ids, e.listing))
            ELSE Ok(None),
            Ok(ids)))

\* CUSTOM_METADATA_DEF
KeywordFields == {"tag", "project", "short_name", "long_name", "doi", "collection_group",
                  "product_stage", "product_type", "sensor_set", "species",
                  "product_version", "processing_batch", "processing_profile"}
DateFields == {"processing_datetime", "retrieval_step"}
CUSTOM_METADATA_DEF ==
    [f \in KeywordFields \cup DateFields |->
        IF f \in KeywordFields THEN [type |-> "keyword"] ELSE [type |-> "date"]]

EmptyDict == [f \in {} |-> [type |-> "keyword"]]
\* d.update(new)
DictUpdate(d, new) == new @@ d

RECURSIVE UpdateAll(_, _)
UpdateAll(d, news) ==
    IF news = <<>> THEN d ELSE UpdateAll(DictUpdate(d, Head(news)), Tail(news))

\* the non-200 branch handing back the decoded error body instead of raising it
raise_for_response_lenient(response) ==
    IF "message" \in response.attrs
    THEN Throw("Exception", "Error: message")
    ELSE response_json(response, "error")

\* the raise of a non-200 response in get_archive_config, add_archive_config and
\* existing_custom_metadata
raise_for_response(response) ==
    IF "message" \in response.attrs
    THEN Throw("Exception", "Error: message")
    ELSE Then(response_json(response, "error"), Throw("Exception", "Error: json"))

\* platform: the variables of each collection the platform lists, in order
existing_custom_metadata(platform, fault) ==
    LET each == Loop([i \in 1..Len(platform) |->
                    Then(Issue("GET variables", i),
                         IF RespAt(fault, i).status_code # 200
                         THEN raise_for_response(RespAt(fault, i))
                         ELSE Then(response_json(RespAt(fault, i), "variables"),
                                   Ok(platform[i])))])
    IN Then(Issue("get_collections", None),
       Then(each, Ok(IF Failed(each) THEN EmptyDict ELSE UpdateAll(EmptyDict, each.val))))

define_custom_metadata(do_update, e) ==
    LET existing == existing_custom_metadata(e.platform, e.variables_fault)
        existing_metadata_fields == existing.val
        custom_metadata_fields == DictUpdate(existing_metadata_fields, CUSTOM_METADATA_DEF)
    IN Then(Log("Querying MDPS data services for existing custom metadata", None),
       Then(existing,
       Then(Log("Custom metadata fields definition", custom_metadata_fields),
       Then(IF custom_metadata_fields = existing_metadata_fields
            THEN Log("Proposed fields match existing fields", None) ELSE Ok(None),
       Then(IF do_update
            THEN Then(Log("Committing custom metadata definition", None),
                 Then(Issue("define_custom_metadata", custom_metadata_fields),
                      IF e.define_fail THEN Throw("SDKError", "define_custom_metadata")
                      ELSE Ok(None)))
            ELSE Log("No custom metadata committed, dry run only", None),
            Ok(None))))))

get_archive_config(collection_id, response) ==
    Then(Issue("GET archive", collection_id),
         IF response.status_code # 200
         THEN raise_for_response(response)
         ELSE response_json(response, "archive"))

archive_data(a, daac_collection_id, data_type) ==
    [daac_collection_id |-> daac_collection_id,
     daac_data_version |-> a.granule_version,
     daac_sns_topic_arn |-> a.sns_arn,
     daac_provider |-> a.provider,
     daac_role_arn |-> a.role_arn,
     daac_role_session_name |-> a.role_session_name,
     archiving_types |-> <<[data_type |-> data_type, file_extension |-> <<".nc">>]>>]

\* add_archive_config committing whatever do_update says
add_archive_config_always(mdps_collection_id, daac_collection_id, a, do_update, response) ==
    Then(Log("Archive configuration", archive_data(a, daac_collection_id, "data")),
    Then(Issue("PUT archive", mdps_collection_id),
         IF response.status_code # 200
         THEN raise_for_response(response)
         ELSE response_json(response, "archive")))

add_archive_config(mdps_collection_id, daac_collection_id, a, do_update, response) ==
    LET data == archive_data(a, daac_collection_id, "data")
    IN Then(Log("Archive configuration", data),
            IF do_update
            THEN Then(Log("Committing archive configuration", None),
                 Then(Issue("PUT archive", mdps_collection_id),
                      IF response.status_code # 200
                      THEN raise_for_response(response)
                      ELSE response_json(response, "archive")))
            ELSE Then(Log("No archive configuration committed, dry run only", None),
                      Ok(data)))

\* the copy in the stand-alone script init_data_services.py: no dry run of its own
legacy_add_archive_config(mdps_collection_id, daac_collection_id, a, response) ==
    Then(Issue("PUT archive", mdps_collection_id),
         IF response.status_code # 200
         THEN raise_for_response(response)
         ELSE response_json(response, "archive"))

delete_archive_config(mdps_collection_id, daac_collection_id, response) ==
    Then(Issue("DELETE archive", mdps_collection_id),
         IF response.status_code # 200
         THEN IF "test" \in response.attrs
              THEN Throw("Exception", "Error: text")
              ELSE raise_for_response(response)
         ELSE response_json(response, "archive"))

\* register_daac_archiving deleting and adding one collection id at a time
register_daac_archiving_interleaved(project, venue, a, e) ==
    LET collection_group_obj == get_collection_group(a.collection_group_keyword)
    IN IF collection_group_obj = NoObject
       THEN Throw("AttributeError", "'NoneType' object has no attribute 'keyword'")
       ELSE
       LET tropess_short_names == collection_group_short_names(collection_group_obj, NoObject)
           ids == mdps_collection_ids(project, venue, tropess_short_names, a.granule_version)
           n == Len(ids)
       IN Then(Loop([i \in 1..n |->
                       Then(IF a.delete
                            THEN Then(Log("Deleting DAAC archive id", ids[i]),
                                      delete_archive_config(ids[i], tropess_short_names[i],
                                                            RespAt(e.delete_fault, i)))
                            ELSE Ok(None),
                       Then(Log("Registering DAAC archive id", ids[i]),
                            add_archive_config(ids[i], tropess_short_names[i], a,
                                               a.do_update, RespAt(e.put_fault, i))))]),
          Then(Loop([i \in 1..n |->
                       Then(get_archive_config(ids[i], RespAt(e.get_fault, i)),
                            Log("Archive config for", ids[i]))]),
               Ok(ids)))

\* a: the command's arguments; e: the faults of the DELETE, PUT and GET requests
register_daac_archiving(project, venue, a, e) ==
    LET collection_group_obj == get_collection_group(a.collection_group_keyword)
    IN IF collection_group_obj = NoObject
       THEN Throw("AttributeError", "'NoneType' object has no attribute 'keyword'")
       ELSE
       LET tropess_short_names == collection_group_short_names(collection_group_obj, NoObject)
           ids == mdps_collection_ids(project, venue, tropess_short_names, a.granule_version)
           n == Len(ids)
       IN Then(IF a.delete
               THEN Loop([i \in 1..n |->
                       Then(Log("Deleting DAAC archive id", ids[i]),
                            delete_archive_config(ids[i], tropess_short_names[i],
                                                  RespAt(e.delete_fault, i)))])
               ELSE Ok(None),
          Then(Loop([i \in 1..n |->
                       Then(Log("Registering DAAC archive id", ids[i]),
                            add_archive_config(ids[i], tropess_short_names[i], a,
                                               a.do_update, RespAt(e.put_fault, i)))]),
          Then(Loop([i \in 1..n |->
                       Then(get_archive_config(ids[i], RespAt(e.get_fault, i)),
                            Log("Archive config for", ids[i]))]),
               Ok(ids))))

\* the copy in the stand-alone script init_data_services.py
legacy_register_daac_archiving(project, venue, a, e) ==
    LET tropess_short_names == legacy_collection_group_short_names(a.collection_group_keyword)
        ids == legacy_mdps_collection_ids(project, venue, tropess_short_names, a.granule_version)
        n == Len(ids)
    IN Then(IF a.delete
            THEN Loop([i \in 1..n |->
                    Then(Log("Deleting DAAC archive id", ids[i]),
                         delete_archive_config(ids[i], tropess_short_names[i],
                                               RespAt(e.delete_fault, i)))])
            ELSE Ok(None),
       Then(IF a.do_update
            THEN Loop([i \in 1..n |->
                    Then(Log("Registering DAAC archive id", ids[i]),
                         legacy_add_archive_config(ids[i], tropess_short_names[i], a,
                                                   RespAt(e.put_fault, i)))])
            ELSE Ok(None),
       Then(Loop([i \in 1..n |->
                    Then(get_archive_config(ids[i], RespAt(e.get_fault, i)),
                         Log("Archive config for", ids[i]))]),
            Ok(ids))))

(***************************************************************************)
(* DataTool._find_sensor_set and the collection ids built on it.  The      *)
(* query is the string of the command line, or None.                       *)
(***************************************************************************)
\* _find_sensor_set trying the group's aliases before the global keywords
find_sensor_set_alias_first(collection_group_obj, sensor_set_query) ==
    IF sensor_set_query = None THEN Ok(NoObject)
    ELSE IF sensor_set_query \in DOMAIN collection_group_obj.sensor_set_mappings
    THEN Ok(collection_group_obj.sensor_set_mappings[sensor_set_query])
    ELSE IF sensor_set_query \in DOMAIN sensor_sets
    THEN Ok(sensor_sets[sensor_set_query])
    ELSE Throw("Exception",
               "Could not determine sensor set from string: \"" \o sensor_set_query \o "\"")

_find_sensor_set(collection_group_obj, sensor_set_query) ==
    IF sensor_set_query = None THEN Ok(NoObject)
    ELSE IF sensor_set_query \in DOMAIN sensor_sets
    THEN Ok(sensor_sets[sensor_set_query])
    ELSE IF sensor_set_query \in DOMAIN collection_group_obj.sensor_set_mappings
    THEN Ok(collection_group_obj.sensor_set_mappings[sensor_set_query])
    ELSE Throw("Exception",
               "Could not determine sensor set from string: \"" \o sensor_set_query \o "\"")

\* the copy in the stand-alone script trigger_app.py: None is looked up like a string
legacy_find_sensor_set(collection_group_obj, sensor_set_str) ==
    IF sensor_set_str \in DOMAIN sensor_sets
    THEN Ok(sensor_sets[sensor_set_str])
    ELSE IF sensor_set_str \in DOMAIN collection_group_obj.sensor_set_mappings
    THEN Ok(collection_group_obj.sensor_set_mappings[sensor_set_str])
    ELSE Throw("Exception",
               "Could not determine sensor set from string: \"" \o sensor_set_str \o "\"")

muses_collection_ids(project, venue, collection_group, collection_version, sensor_set_str) ==
    Bind(_find_sensor_set(collection_group, sensor_set_str), LAMBDA sensor_set_obj :
         Ok(mdps_collection_ids(project, venue,
                                muses_short_names(collection_group, sensor_set_obj),
                                collection_version)))

tropess_collection_ids(project, venue, collection_group, collection_version, sensor_set_str) ==
    Bind(_find_sensor_set(collection_group, sensor_set_str), LAMBDA sensor_set_obj :
         Ok(mdps_collection_ids(project, venue,
                                collection_group_short_names(collection_group, sensor_set_obj),
                                collection_version)))

(***************************************************************************)
(* trigger_app.py: TropessDAGRunner                                        *)
(***************************************************************************)
REQUEST_INSTANCE_TYPE == "t3.medium"
REQUEST_STORAGE == "10Gi"
DEFAULT_DAG_NAME == "cwl_dag_modular"
LEGACY_DEFAULT_DAG_NAME == "cwl_dag_modular_unity"
DEPLOY_FILES_BASE_URL ==
    "https://raw.githubusercontent.com/unity-sds/mdps-tropess-deploy/refs/heads/main/"
SUBCOMMAND_DIRS == ("data_ingest" :> "mdps-muses-data-ingest") @@ ("py_tropess" :> "py-tropess")
CWL_WORKFLOW_FILENAME(subcommand_dir, project, venue) ==
    subcommand_dir \o "/process-" \o project \o "-" \o venue \o ".cwl"
EXPECTED_INGEST_SUBDIRS == <<"L2_Products", "L2_Products_Lite">>

\* json.dumps of a dict of strings, given as its (key, value) pairs in order
json_value(v) == IF v = None THEN "null" ELSE "\"" \o v \o "\""
RECURSIVE json_members(_)
json_members(pairs) ==
    IF pairs = <<>> THEN ""
    ELSE "\"" \o Head(pairs)[1] \o "\": " \o json_value(Head(pairs)[2])
         \o (IF Len(pairs) > 1 THEN ", " ELSE "") \o json_members(Tail(pairs))
json_dumps(pairs) == "{" \o json_members(pairs) \o "}"

_airflow_api_url(project, venue, e) ==
    Then(Issue("ssm get_parameter",
               "/" \o project \o "/" \o venue \o "/sps/processing/airflow/api_url"),
         IF e.ssm_fail THEN Throw("ClientError", "ParameterNotFound")
         ELSE Ok(e.ssm_value))

\* the part of trigger_dag up to the request body, the same in both copies
dag_request(project, venue, default_dag_name, process_workflow, run_id, process_args, stac_json, use_ecr, use_stac_auth, e) ==
    Bind(IF e.AIRFLOW_API_URL # None THEN Ok(e.AIRFLOW_API_URL)
         ELSE _airflow_api_url(project, venue, e),
         LAMBDA airflow_api_url :
         LET dag_name == IF e.AIRFLOW_DAG_NAME # None THEN e.AIRFLOW_DAG_NAME
                         ELSE default_dag_name
             trigger_url == path_join(airflow_api_url, "dags/" \o dag_name \o "/dagRuns")
             data == [dag_run_id |-> run_id,
                      logical_date |-> e.utc_now,
                      conf |-> [process_args |-> json_dumps(process_args),
                                process_workflow |-> process_workflow,
                                stac_json |-> stac_json,
                                request_instance_type |-> REQUEST_INSTANCE_TYPE,
                                request_storage |-> REQUEST_STORAGE,
                                use_ecr |-> use_ecr,
                                unity_stac_auth_type |-> use_stac_auth]]
         IN Then(Log("Using Airflow API URL", trigger_url),
            Then(Issue("get_token", None),
            Then(Log("DAG parameters", data),
            Then(Log("process_args from DAG parameters as one line", data.conf.process_args),
                 Ok([trigger_url |-> trigger_url, data |-> data]))))))

\* requests.post sent a second time when the first answer is not a 200
post_dag_run_retried(trigger_url, data, e) ==
    Then(Log("Triggering Airflow DAG at", trigger_url),
    Then(Issue("POST dagRuns", [url |-> trigger_url, json |-> data]),
    Then(IF e.post.kind = "timeout" \/ e.post.status_code # 200
         THEN Issue("POST dagRuns", [url |-> trigger_url, json |-> data])
         ELSE Ok(None),
         IF e.post.kind = "timeout" THEN Throw("Timeout", "requests.post") ELSE Ok(e.post))))

\* requests.post: the request is sent; e.post is the answer, or a transport error
post_dag_run(trigger_url, data, e) ==
    Then(Log("Triggering Airflow DAG at", trigger_url),
    Then(Issue("POST dagRuns", [url |-> trigger_url, json |-> data]),
         IF e.post.kind = "timeout" THEN Throw("Timeout", "requests.post") ELSE Ok(e.post)))

result_json(result) ==
    IF result.json_ok THEN Log("Response JSON", result.text)
    ELSE Throw("JSONDecodeError", "")

trigger_error(trigger_url, result) ==
    Throw("Exception", "Error triggering Airflow DAG at " \o trigger_url \o ": " \o result.text)

\* trigger_dag posting whatever the trigger flag says
trigger_dag_always(project, venue, process_workflow, run_id, process_args, stac_json, use_ecr, use_stac_auth, trigger, e) ==
    Bind(dag_request(project, venue, DEFAULT_DAG_NAME, process_workflow, run_id,
                     process_args, stac_json, use_ecr, use_stac_auth, e),
         LAMBDA req :
         Then(post_dag_run(req.trigger_url, req.data, e),
              Then(Log("Airflow DAG dry-run only", None), Ok(None))))

trigger_dag(project, venue, process_workflow, run_id, process_args, stac_json, use_ecr, use_stac_auth, trigger, e) ==
    Bind(dag_request(project, venue, DEFAULT_DAG_NAME, process_workflow, run_id,
                     process_args, stac_json, use_ecr, use_stac_auth, e),
         LAMBDA req :
         IF trigger
         THEN Bind(post_dag_run(req.trigger_url, req.data, e), LAMBDA result :
                   Then(IF result.status_code # 200
                        THEN trigger_error(req.trigger_url, result)
                        ELSE Ok(None),
                   Then(result_json(result),
                        Ok(None))))
         ELSE Then(Log("Airflow DAG dry-run only", None), Ok(None)))

\* the copy in the stand-alone script trigger_app.py: the response is decoded
\* before its status is looked at
legacy_trigger_dag(project, venue, process_workflow, run_id, process_args, stac_json, use_ecr, use_stac_auth, trigger, e) ==
    Bind(dag_request(project, venue, LEGACY_DEFAULT_DAG_NAME, process_workflow, run_id,
                     process_args, stac_json, use_ecr, use_stac_auth, e),
         LAMBDA req :
         IF trigger
         THEN Bind(post_dag_run(req.trigger_url, req.data, e), LAMBDA result :
                   Then(result_json(result),
                   Then(IF result.status_code # 200
                        THEN trigger_error(req.trigger_url, result)
                        ELSE Ok(None),
                        Ok(None))))
         ELSE Then(Log("Airflow DAG dry-run only", None), Ok(None)))

\* urlparse(url): the bucket (netloc) and the path of scheme://netloc/path
url_netloc(url) ==
    LET rest == SubSeq(url, Len(Split(url, ":")[1]) + 4, Len(url))
    IN Split(rest, "/")[1]
url_path(url) ==
    LET start == Len(Split(url, ":")[1]) + 4 + Len(url_netloc(url))
    IN SubSeq(url, start, Len(url))
basename(path) == LET parts == Split(path, "/") IN parts[Len(parts)]

\* _verify_s3_path content with any listing that has contents and a sub-directory
verify_s3_path_any_listing(base_path, data_path, e) ==
    LET data_dir == IF EndsWith(data_path, "/") THEN data_path ELSE data_path \o "/"
        url_full_path == path_join(base_path, data_dir)
        prefix == LStrip(url_path(url_full_path), "/")
    IN Then(Issue("s3 list_objects", [Bucket |-> url_netloc(url_full_path), Prefix |-> prefix]),
            IF e.s3.fail THEN Throw("ClientError", "s3 list_objects")
            ELSE IF ~e.s3.contents
            THEN Throw("Exception", "Could not find anything at S3 URL: " \o url_full_path)
            ELSE IF Len(e.s3.subdirs) = 0
            THEN Throw("Exception", "No files or directories found at " \o url_full_path)
            ELSE Then(Log("Ingesting data from S3 path", url_full_path),
                      Log("Path contains", e.s3.subdirs)))

\* e.s3: the listing's answer: whether it has Contents, and the names of the
\* sub-directories it reports as CommonPrefixes (none: the key is absent)
_verify_s3_path(base_path, data_path, e) ==
    LET data_dir == IF EndsWith(data_path, "/") THEN data_path ELSE data_path \o "/"
        url_full_path == path_join(base_path, data_dir)
        prefix == LStrip(url_path(url_full_path), "/")
        common_prefixes == [i \in 1..Len(e.s3.subdirs) |->
                                [Prefix |-> prefix \o e.s3.subdirs[i] \o "/"]]
        path_sub_items == [i \in 1..Len(common_prefixes) |->
                                basename(RStrip(common_prefixes[i].Prefix, "/"))]
        missing == {i \in 1..Len(EXPECTED_INGEST_SUBDIRS) :
                        EXPECTED_INGEST_SUBDIRS[i] \notin SeqToSet(path_sub_items)}
    IN Then(Issue("s3 list_objects", [Bucket |-> url_netloc(url_full_path), Prefix |-> prefix]),
            IF e.s3.fail THEN Throw("ClientError", "s3 list_objects")
            ELSE IF ~e.s3.contents
            THEN Throw("Exception", "Could not find anything at S3 URL: " \o url_full_path)
            ELSE IF Len(common_prefixes) = 0
            THEN Throw("Exception", "No files or directories found at " \o url_full_path)
            ELSE IF missing # {}
            THEN Throw("Exception", "Did not find " \o EXPECTED_INGEST_SUBDIRS[Min(missing)]
                                    \o " under " \o url_full_path)
            ELSE Then(Log("Ingesting data from S3 path", url_full_path),
                      Log("Path contains", path_sub_items)))

\* the walrus binds `response` to the comparison's boolean, so formatting the
\* message of the intended error raises AttributeError
_verify_file_url(url, status_code) ==
    Then(Issue("GET", url),
         IF status_code # 200
         THEN Throw("AttributeError", "'bool' object has no attribute 'status_code'")
         ELSE Ok(None))

\* docker_pull: the dockerPull entry of the local CWL file
_extract_cwl_docker_version(docker_pull) ==
    LET parts == Split(docker_pull, ":")
    IN IF Len(parts) # 2 THEN Throw("ValueError", "unpack") ELSE Ok(parts[2])

\* _process_workflow_url without the check of the local file
process_workflow_url_unchecked(project, venue, subcommand_name, e) ==
    LET process_workflow_url ==
            path_join(DEPLOY_FILES_BASE_URL,
                      CWL_WORKFLOW_FILENAME(SUBCOMMAND_DIRS[subcommand_name], project, venue))
    IN Then(Issue("GET", process_workflow_url),
            Ok([url |-> process_workflow_url, docker_version |-> "0"]))

_process_workflow_url(project, venue, subcommand_name, e) ==
    LET process_workflow_filename ==
            CWL_WORKFLOW_FILENAME(SUBCOMMAND_DIRS[subcommand_name], project, venue)
        process_workflow_url == path_join(DEPLOY_FILES_BASE_URL, process_workflow_filename)
    IN IF ~e.cwl_exists
       THEN Throw("Exception", "Could not find process CWL file: " \o process_workflow_filename)
       ELSE Bind(_extract_cwl_docker_version(e.docker_pull), LAMBDA docker_version :
            Then(Issue("GET", process_workflow_url),
            Then(IF e.cwl_get # 200
                 THEN Throw("Exception", "Invalid process CWL url: " \o process_workflow_url
                                \o ", get failed with status code: " \o ToString(e.cwl_get))
                 ELSE Ok(None),
            Then(_verify_file_url(process_workflow_url, e.cwl_get_again),
            Then(Log("Using worflow CWL", process_workflow_url),
                 Ok([url |-> process_workflow_url, docker_version |-> docker_version]))))))

\* the copy in the stand-alone script trigger_app.py: the CWL file is not read
legacy_process_workflow_url(project, venue, subcommand_name, e) ==
    LET process_workflow_filename ==
            CWL_WORKFLOW_FILENAME(SUBCOMMAND_DIRS[subcommand_name], project, venue)
        process_workflow_url == path_join(DEPLOY_FILES_BASE_URL, process_workflow_filename)
    IN IF ~e.cwl_exists
       THEN Throw("Exception", "Could not find process CWL file: " \o process_workflow_filename)
       ELSE Then(Issue("GET", process_workflow_url),
            Then(IF e.cwl_get # 200
                 THEN Throw("Exception", "Invalid process CWL url: " \o process_workflow_url
                                \o ", get failed with status code: " \o ToString(e.cwl_get))
                 ELSE Ok(None),
            Then(_verify_file_url(process_workflow_url, e.cwl_get_again),
            Then(Log("Using worflow CWL", process_workflow_url),
                 Ok([url |-> process_workflow_url])))))

INGEST_STAC_JSON_URL ==
    path_join(path_join(DEPLOY_FILES_BASE_URL, SUBCOMMAND_DIRS["data_ingest"]), "stage_in.json")

ingest_asserts(a) ==
    IF \/ a.input_data_ingest_path = None
       \/ a.collection_group_keyword = None
       \/ a.input_data_base_path = None
       \/ a.collection_version = None
    THEN Throw("AssertionError", "")
    ELSE Ok(None)

ingest_process_args(a) ==
    << <<"input_data_ingest_path", a.input_data_ingest_path>>,
       <<"collection_group_keyword", a.collection_group_keyword>>,
       <<"input_data_base_path", a.input_data_base_path>>,
       <<"collection_version", a.collection_version>> >>

data_ingest(project, venue, a, e) ==
    Then(ingest_asserts(a),
    Then(_verify_s3_path(a.input_data_base_path, a.input_data_ingest_path, e),
    Bind(_process_workflow_url(project, venue, "data_ingest", e), LAMBDA workflow :
    Then(_verify_file_url(INGEST_STAC_JSON_URL, e.stage_in_get),
    Then(Log("Using STAC JSON", INGEST_STAC_JSON_URL),
         trigger_dag(project, venue, workflow.url,
                     "TROPESS-data_ingest_" \o workflow.docker_version \o "-"
                        \o a.collection_group_keyword \o ":"
                        \o Replace(a.input_data_ingest_path, "/", "-"),
                     ingest_process_args(a), INGEST_STAC_JSON_URL, TRUE, FALSE,
                     a.trigger, e))))))

invalid_keyword(keyword) ==
    Throw("Exception", "Invalid collection_group_keyword: " \o keyword)

\* the copy in the stand-alone script trigger_app.py
legacy_data_ingest(project, venue, a, e) ==
    Then(ingest_asserts(a),
    Then(_verify_s3_path(a.input_data_base_path, a.input_data_ingest_path, e),
    Then(IF get_collection_group(a.collection_group_keyword) = NoObject
         THEN invalid_keyword(a.collection_group_keyword) ELSE Ok(None),
    Bind(legacy_process_workflow_url(project, venue, "data_ingest", e), LAMBDA workflow :
    Then(_verify_file_url(INGEST_STAC_JSON_URL, e.stage_in_get),
    Then(Log("Using STAC JSON", INGEST_STAC_JSON_URL),
         legacy_trigger_dag(project, venue, workflow.url,
                            "TROPESS-data_ingest-" \o a.collection_group_keyword \o ":"
                                \o a.input_data_base_path,
                            ingest_process_args(a), INGEST_STAC_JSON_URL, TRUE, FALSE,
                            a.trigger, e)))))))

\* the assets of the features whose key ends in .nc, counted feature by feature
RECURSIVE SumSeq(_)
SumSeq(ns) == IF ns = <<>> THEN 0 ELSE Head(ns) + SumSeq(Tail(ns))
nc_file_count(features) ==
    SumSeq([i \in 1..Len(features) |->
                Cardinality({fn \in DOMAIN features[i].assets : EndsWith(fn, ".nc")})])

\* check_nc_files counting the files without asking for one
check_nc_files_uncounted(stac) ==
    Log("Found files to process", nc_file_count(stac.features))

check_nc_files(stac) ==
    IF nc_file_count(stac.features) = 0
    THEN Throw("Exception", "Found 0 files to process")
    ELSE Log("Found files to process", nc_file_count(stac.features))

_catalog_query_url(stac) ==
    IF "links" \notin DOMAIN stac THEN Throw("KeyError", "links")
    ELSE IF Len(stac.links) = 0 THEN Throw("IndexError", "list index out of range")
    ELSE Ok(stac.links[1].href)

QUERY_INPUT_LIMIT == 1000

\* query_input_data taking the first MUSES collection id however many there are
query_input_data_first_id(project, venue, collection_group, sensor_set_str, muses_collection_version, processing_date, e) ==
    Bind(muses_collection_ids(project, venue, collection_group,
                              muses_collection_version, sensor_set_str),
         LAMBDA ids :
         Then(IF Len(ids) = 0 THEN Throw("IndexError", "list index out of range")
              ELSE Ok(None),
         Bind(query_data_catalog(ids[1], processing_date, NoRange, QUERY_INPUT_LIMIT, e.catalog),
              LAMBDA stac_query_result :
              Then(check_nc_files(stac_query_result),
                   _catalog_query_url(stac_query_result)))))

query_input_data(project, venue, collection_group, sensor_set_str, muses_collection_version, processing_date, e) ==
    Bind(muses_collection_ids(project, venue, collection_group,
                              muses_collection_version, sensor_set_str),
         LAMBDA ids :
         Then(IF Len(ids) > 1
              THEN Throw("Exception", "Multiple sensor sets for the " \o collection_group.keyword
                             \o " collection group, add sensor_set to argument to filter")
              ELSE IF Len(ids) = 0 THEN Throw("IndexError", "list index out of range")
              ELSE Ok(None),
         Bind(query_data_catalog(ids[1], processing_date, NoRange, QUERY_INPUT_LIMIT, e.catalog),
              LAMBDA stac_query_result :
              Then(check_nc_files(stac_query_result),
                   _catalog_query_url(stac_query_result)))))

has_species(processing_species) == processing_species # None /\ processing_species # "null"

py_tropess_process_args(a) ==
    << <<"product_type", a.product_type>>, <<"granule_version", a.granule_version>> >>
    \o (IF has_species(a.processing_species)
        THEN << <<"processing_species", a.processing_species>> >> ELSE <<>>)

species_suffix(processing_species) ==
    IF has_species(processing_species)
    THEN "-" \o Replace(processing_species, " ", "") ELSE ""

py_tropess(project, venue, collection_group, a, e) ==
    Bind(query_input_data(project, venue, collection_group, a.sensor_set_str,
                          a.muses_collection_version, a.processing_date, e),
         LAMBDA stac_json_url :
    Bind(_process_workflow_url(project, venue, "py_tropess", e), LAMBDA workflow :
         trigger_dag(project, venue, workflow.url,
                     "TROPESS-py_tropess_" \o workflow.docker_version \o "-"
                        \o collection_group.keyword \o "-" \o a.sensor_set_str \o "-"
                        \o a.processing_date \o "-" \o a.product_type
                        \o species_suffix(a.processing_species),
                     py_tropess_process_args(a), stac_json_url, TRUE, TRUE, a.trigger, e)))

\* trigger_app.py of the package, main(): the group is looked up before the handler
trigger_main(project, venue, subcommand, a, e) ==
    LET collection_group_obj == get_collection_group(a.collection_group_keyword)
    IN IF collection_group_obj = NoObject THEN invalid_keyword(a.collection_group_keyword)
       ELSE IF subcommand = "data_ingest" THEN data_ingest(project, venue, a, e)
       ELSE py_tropess(project, venue, collection_group_obj, a, e)

LEGACY_QUERY_LIMIT == 10000

\* the stand-alone script's own query_data_catalog: the date is used as given
legacy_query_data_catalog(collection_id, processing_date, e) ==
    Then(Log("Searching data catalog for MUSES data for collection", collection_id),
    Then(Issue("get_collection_data",
               [collection_id |-> collection_id, filter |-> DateFilter(processing_date),
                limit |-> LEGACY_QUERY_LIMIT]),
    Then(IF "features" \notin DOMAIN e.catalog
         THEN Throw("Exception", "Error querying data catalog") ELSE Ok(None),
    Then(check_nc_files(e.catalog),
         Ok(e.catalog)))))

legacy_py_tropess(project, venue, a, e) ==
    LET collection_group_obj == get_collection_group(a.collection_group_keyword)
    IN IF collection_group_obj = NoObject THEN invalid_keyword(a.collection_group_keyword)
       ELSE
       Bind(legacy_find_sensor_set(collection_group_obj, a.sensor_set_str),
            LAMBDA sensor_set_obj :
       Bind(normalize_date(a.processing_date), LAMBDA query_date :
       Bind(legacy_query_data_catalog(
                "URN:NASA:UNITY:" \o project \o ":" \o venue \o ":"
                    \o ("MUSES-" \o sensor_set_obj.short_name \o "-"
                        \o collection_group_obj.short_name)
                    \o "___" \o a.muses_collection_version,
                query_date, e),
            LAMBDA stac_query_result :
       Bind(legacy_process_workflow_url(project, venue, "py_tropess", e), LAMBDA workflow :
       Bind(_catalog_query_url(stac_query_result), LAMBDA stac_json_url :
            legacy_trigger_dag(project, venue, workflow.url,
                               "TROPESS-py_tropess-" \o a.collection_group_keyword \o "-"
                                   \o a.sensor_set_str \o "-" \o a.processing_date \o "-"
                                   \o a.product_type \o species_suffix(a.processing_species),
                               py_tropess_process_args(a), stac_json_url,
                               TRUE, TRUE, a.trigger, e))))))

\* the stand-alone script's main(): no lookup before the handler
legacy_trigger_main(project, venue, subcommand, a, e) ==
    IF subcommand = "data_ingest" THEN legacy_data_ingest(project, venue, a, e)
    ELSE legacy_py_tropess(project, venue, a, e)

(***************************************************************************)
(* query_data.py: reports, files and the query_data command.  What is      *)
(* printed is kept in the log as "print" entries; a file written is a      *)
(* "write_file" call.                                                      *)
(***************************************************************************)
Stdout(text) == Log("print", text)
\* print(table) of a PrettyTable
StdoutTable(table) == Log("print table", table)

\* feat_is_archived taking any archive status for an archived one
feat_is_archived_any_status(feat) == "archive_status" \in DOMAIN feat.properties

feat_is_archived(feat) ==
    /\ "archive_status" \in DOMAIN feat.properties
    /\ feat.properties.archive_status = "cnm_r_success"

EmptyStatus == [d \in {} |-> [count |-> 0, num_archived |-> 0]]
\* d.get(k, default) forgetting the entry d has
DictGet_default(d, k, default) == default
DictGet(d, k, default) == IF k \in DOMAIN d THEN d[k] ELSE default

\* the loop of stac_date_status from feature i on, date_status being the dict so far
RECURSIVE date_status_scan(_, _, _)
date_status_scan(features, i, date_status) ==
    IF i > Len(features) THEN Ok(date_status)
    ELSE IF "processing_datetime" \notin DOMAIN features[i].properties
    THEN Throw("KeyError", "processing_datetime")
    ELSE Bind(normalize_date(features[i].properties.processing_datetime),
              LAMBDA processing_date :
              LET date_info == DictGet(date_status, processing_date,
                                       [count |-> 0, num_archived |-> 0])
                  updated == [count |-> date_info.count + 1,
                              num_archived |-> date_info.num_archived
                                  + (IF feat_is_archived(features[i]) THEN 1 ELSE 0)]
              IN date_status_scan(features, i + 1,
                                  (processing_date :> updated) @@ date_status))

stac_date_status(stac) == date_status_scan(stac.features, 1, EmptyStatus)

\* sorted(keys) of YYYY-MM-DD strings: ascending by (year, month, day)
DateKey(d) == ParseNat(SubSeq(d, 1, 4)) * 10000 + ParseNat(SubSeq(d, 6, 7)) * 100
              + ParseNat(SubSeq(d, 9, 10))
RECURSIVE SortedDates(_)
SortedDates(S) ==
    IF S = {} THEN <<>>
    ELSE LET first == CHOOSE d \in S : \A o \in S : DateKey(d) <= DateKey(o)
         IN <<first>> \o SortedDates(S \ {first})

data_catalog_collection_ids(prefix, listing) ==
    Then(Issue("get_collections", None),
         Ok(SelectSeq(listing, LAMBDA id : prefix = None \/ Find(id, ":" \o prefix) > 0)))

display_collection_ids(prefix, listing) ==
    Bind(data_catalog_collection_ids(prefix, listing), LAMBDA ids :
         Then(Loop([i \in 1..Len(ids) |-> Log("* " \o ids[i], None)]), Ok(None)))

\* the rows display_collection_overview adds after the collection id: one
\* get_constant_property per row, in order
OverviewRows(product_stage) ==
    <<"collection_group", "sensor_set", "product_stage">>
    \o (IF product_stage # "MUSES" THEN <<"product_type", "short_name", "long_name">> ELSE <<>>)
    \o <<"product_version">>

display_collection_overview(collection_id, stac, processing_date) ==
    Bind(Loop([i \in 1..3 |-> get_constant_property(stac, OverviewRows("MUSES")[i], TRUE)]),
         LAMBDA head :
    Bind(Loop([i \in 1..(Len(OverviewRows(head[3])) - 3) |->
                  get_constant_property(stac, OverviewRows(head[3])[i + 3], TRUE)]),
         LAMBDA tail :
    Bind(IF processing_date # None THEN normalize_date(processing_date) ELSE Ok(None),
         LAMBDA date :
         StdoutTable([table |-> "overview", collection_id |-> collection_id,
                rows |-> head \o tail,
                date |-> date]))))

display_dates(stac) ==
    Bind(stac_date_status(stac), LAMBDA dates_status :
         StdoutTable([table |-> "dates",
                rows |-> [i \in 1..Cardinality(DOMAIN dates_status) |->
                            LET d == SortedDates(DOMAIN dates_status)[i]
                            IN <<d, dates_status[d].count, dates_status[d].num_archived>>]]))

product_id(feat, collection_id) == LStrip(ReplaceStr(feat.id, collection_id, ""), ":")

date_detail_row(feat, collection_id) ==
    IF "species" \notin DOMAIN feat.properties THEN Throw("KeyError", "species")
    ELSE Ok(<<product_id(feat, collection_id), feat.properties.species,
              Cardinality(DOMAIN feat.assets), feat_is_archived(feat)>>)

display_date_details(stac, collection_id) ==
    Bind(Loop([i \in 1..Len(stac.features) |-> date_detail_row(stac.features[i], collection_id)]),
         LAMBDA rows : StdoutTable([table |-> "details", rows |-> rows]))

\* display_one_collection treating an empty result as an error
display_one_collection_strict(collection_id, stac, processing_date) ==
    IF "features" \notin DOMAIN stac THEN Ok(None)
    ELSE IF Len(stac.features) = 0 THEN Throw("Exception", collection_id \o " is empty.")
    ELSE Then(Stdout(""),
         Then(display_collection_overview(collection_id, stac, processing_date),
              IF processing_date = None THEN display_dates(stac)
              ELSE display_date_details(stac, collection_id)))

display_one_collection(collection_id, stac, processing_date) ==
    IF "features" \notin DOMAIN stac THEN Ok(None)
    ELSE IF Len(stac.features) = 0 THEN Stdout(collection_id \o " is empty.")
    ELSE Then(Stdout(""),
         Then(display_collection_overview(collection_id, stac, processing_date),
              IF processing_date = None THEN display_dates(stac)
              ELSE display_date_details(stac, collection_id)))

ZipLen(a, b) == IF Len(a) <= Len(b) THEN Len(a) ELSE Len(b)

display_collection_summary(ids, stac_catalogs, processing_date) ==
    Loop([i \in 1..ZipLen(stac_catalogs, ids) |->
             display_one_collection(ids[i], stac_catalogs[i], processing_date)])

write_stac_catalog(stac_query_result, stac_output_filename) ==
    Then(Log("Writing STAC result to", stac_output_filename),
         Issue("write_file", [name |-> stac_output_filename, json |-> stac_query_result]))

write_stac_files(data_collection_ids, stac_catalogs, output_dir) ==
    Loop([i \in 1..ZipLen(data_collection_ids, stac_catalogs) |->
             write_stac_catalog(stac_catalogs[i],
                                path_join(output_dir, data_collection_ids[i] \o ".stac"))])

delete_params(feat, collection_id, short_name, collection_version, now) ==
    ("identifier " :> "delete-" \o product_id(feat, collection_id) \o "-" \o now.id_time)
    @@ [product |-> [files |-> <<>>, name |-> product_id(feat, collection_id)],
        collection |-> [name |-> short_name, version |-> collection_version],
        provider |-> "tropess_cloud",
        version |-> "1.3",
        submissionTime |-> now.current_time]

write_one_delete_message(feat, collection_id, short_name, collection_version, output_dir, now) ==
    LET output_filename ==
            path_join(output_dir, "delete-" \o product_id(feat, collection_id) \o "-"
                                  \o now.id_time \o ".json")
    IN Then(Log("Writing delete message to", output_filename),
            Issue("write_file",
                  [name |-> output_filename,
                   json |-> delete_params(feat, collection_id, short_name,
                                          collection_version, now)]))

write_delete_message(data_collection_ids, stac_catalogs, collection_version, output_dir, now) ==
    Loop([c \in 1..ZipLen(data_collection_ids, stac_catalogs) |->
             IF Len(stac_catalogs[c].features) = 0 THEN Ok(None)
             ELSE Bind(get_constant_property(stac_catalogs[c], "short_name", TRUE),
                       LAMBDA short_name :
                       Loop([i \in 1..Len(stac_catalogs[c].features) |->
                                write_one_delete_message(stac_catalogs[c].features[i],
                                                         data_collection_ids[c], short_name,
                                                         collection_version, output_dir, now)]))])

\* data_catalog_query going through the collection ids from the last to the first
data_catalog_query_reversed(collection_ids, processing_date, date_range, query_limit, e) ==
    Loop([i \in 1..Len(collection_ids) |->
             query_data_catalog(collection_ids[Len(collection_ids) + 1 - i], processing_date,
                                date_range, query_limit,
                                e.responses[Len(collection_ids) + 1 - i])])

\* list(data_catalog_query(...)): one query per collection id, in order; e.responses[i]
\* answers the query for the i-th id
data_catalog_query(collection_ids, processing_date, date_range, query_limit, e) ==
    Loop([i \in 1..Len(collection_ids) |->
             query_data_catalog(collection_ids[i], processing_date, date_range, query_limit,
                                e.responses[i])])

query_data(project, venue, collection_id_prefix, collection_version, collection_group, a, e) ==
    IF collection_group = NoObject THEN display_collection_ids(collection_id_prefix, e.listing)
    ELSE
    Bind(IF collection_id_prefix = "MUSES"
         THEN muses_collection_ids(project, venue, collection_group, collection_version,
                                   a.sensor_set_str)
         ELSE tropess_collection_ids(project, venue, collection_group, collection_version,
                                     a.sensor_set_str),
         LAMBDA data_collection_ids :
    Bind(data_catalog_query(data_collection_ids, a.processing_date, a.date_range,
                            a.query_limit, e),
         LAMBDA stac_catalogs :
    Then(display_collection_summary(data_collection_ids, stac_catalogs, a.processing_date),
    Then(IF a.output_dir # None /\ ~e.output_dir_exists
         THEN Then(Log("Creating directory", a.output_dir), Issue("makedirs", a.output_dir))
         ELSE Ok(None),
    Then(IF ~a.write_stac_catalog THEN Ok(None)
         ELSE IF a.output_dir # None /\ a.output_dir # ""
         THEN write_stac_files(data_collection_ids, stac_catalogs, a.output_dir)
         ELSE Log("Can not write STAC catalog files because output directory was not defined",
                  None),
    Then(IF ~a.write_delete_message THEN Ok(None)
         ELSE IF a.output_dir # None
         THEN write_delete_message(data_collection_ids, stac_catalogs, collection_version,
                                   a.output_dir, e.now)
         ELSE Log("Can not write delete message files because output directory was not defined",
                  None),
         Ok(None)))))))

\* the value of a version option as text: the tropess default is the integer 2
version_text(v) == IF v.is_int THEN ToString(v.int) ELSE v.str

\* main() of query_data.py without the mutually exclusive group
query_main_unchecked(project, venue, a, e) ==
    IF /\ a.collection_group_keyword # None
       /\ get_collection_group(a.collection_group_keyword) = NoObject
    THEN invalid_keyword(a.collection_group_keyword)
    ELSE query_data(project, venue,
                    IF a.subparser_name = "muses" THEN "MUSES" ELSE "TRPS",
                    version_text(a.collection_version),
                    IF a.collection_group_keyword = None THEN NoObject
                    ELSE get_collection_group(a.collection_group_keyword),
                    a, e)

\* query_data.py main(): argparse (processing_date and date_range are in one
\* mutually exclusive group), the group lookup, then the sub-command
query_main(project, venue, a, e) ==
    IF a.processing_date # None /\ a.date_range # NoRange
    THEN Throw("SystemExit", "argument -r/--date_range: not allowed with argument "
                             \o "-d/--processing_date")
    ELSE IF /\ a.collection_group_keyword # None
            /\ get_collection_group(a.collection_group_keyword) = NoObject
    THEN invalid_keyword(a.collection_group_keyword)
    ELSE query_data(project, venue,
                    IF a.subparser_name = "muses" THEN "MUSES" ELSE "TRPS",
                    version_text(a.collection_version),
                    IF a.collection_group_keyword = None THEN NoObject
                    ELSE get_collection_group(a.collection_group_keyword),
                    a, e)

(***************************************************************************)
(* Input domains.                                                          *)
(***************************************************************************)
Identities == {<<"unity", "ops">>, <<"Tropess", " Dev ">>}   \* (PROJECT, VENUE)
Versions == {"1", "v02"}
ShortNameInputs == {"TRPS-a", " muses-B "}
Scripts == {"package", "legacy"}
MusesVersions == {"1", "3"}

\* the custom-metadata variables a collection of the platform may already define
PlatformVariables ==
    { EmptyDict,
      "tag" :> [type |-> "text"],
      "granule_id" :> [type |-> "keyword"],
      ("granule_id" :> [type |-> "long"]) @@ ("doi" :> [type |-> "keyword"]),
      CUSTOM_METADATA_DEF }

\* date strings given on the command line
DateInputs == {"2024-01-05", "Jan 5 2024", "01/05/2024", "2024-01-01", "2024-01-03", "someday"}
RangeInputs == { <<"2024-01-01", "2024-01-03">>, <<"01/05/2024", "Jan 5 2024">>,
                 <<"2024-01-03", "someday">> }

EmptyProps == [k \in {} |-> ""]
EmptyAssets == [k \in {} |-> ""]
Feature(id, properties, assets) == [id |-> id, properties |-> properties, assets |-> assets]

\* the properties of a feature as far as one property, short_name, goes:
\* not defined, null, or one of two names
ShortNameProps ==
    {EmptyProps} \cup {"short_name" :> v : v \in {None, "TRPS-A", "TRPS-B"}}

FeaturesOf(props) ==
    [i \in 1..Len(props) |-> Feature("granule" \o ToString(i), props[i], EmptyAssets)]

StacLinks == <<[rel |-> "self", href |-> "https://catalog/query"]>>

\* what get_collection_data may return
StacResponses ==
    { [message |-> "Internal Server Error"],
      [features |-> <<>>, links |-> StacLinks],
      [features |-> FeaturesOf(<<"short_name" :> "TRPS-A">>), links |-> StacLinks] }

\* answers of the workflow engine to the POST, or no answer in time
DefaultPost == [kind |-> "response", status_code |-> 200, json_ok |-> TRUE,
                text |-> "{\"dag_run_id\": \"run\"}"]
PostTimeout == [kind |-> "timeout", status_code |-> 0, json_ok |-> FALSE, text |-> ""]
PostAnswers ==
    { DefaultPost,
      [DefaultPost EXCEPT !.json_ok = FALSE, !.text = "OK"],
      [DefaultPost EXCEPT !.status_code = 500, !.text = "{\"detail\": \"failed\"}"],
      [DefaultPost EXCEPT !.status_code = 500, !.json_ok = FALSE,
                          !.text = "Internal Server Error"],
      [DefaultPost EXCEPT !.status_code = 201],
      PostTimeout }

\* answers of the S3 listing
DefaultS3 == [fail |-> FALSE, contents |-> TRUE, subdirs |-> EXPECTED_INGEST_SUBDIRS]
S3Answers ==
    { DefaultS3,
      [DefaultS3 EXCEPT !.fail = TRUE],
      [DefaultS3 EXCEPT !.contents = FALSE, !.subdirs = <<>>],
      [DefaultS3 EXCEPT !.subdirs = <<>>],
      [DefaultS3 EXCEPT !.subdirs = <<"L2_Products">>],
      [DefaultS3 EXCEPT !.subdirs = <<"L2_Products_Lite", "Logs", "L2_Products">>],
      [DefaultS3 EXCEPT !.subdirs = <<"L2_Products_Lite">>],
      [DefaultS3 EXCEPT !.subdirs = <<"Logs">>],
      [DefaultS3 EXCEPT !.contents = FALSE] }

NcAssets == ("granule.nc" :> "data") @@ ("granule.nc.xml" :> "metadata")
NcFeatures == <<Feature("granule1", "short_name" :> "MUSES-CrIS-Forward", NcAssets)>>
DefaultCatalog == [features |-> NcFeatures, links |-> StacLinks]
CatalogAnswers ==
    { DefaultCatalog,
      [message |-> "Internal Server Error"],
      [features |-> <<>>, links |-> StacLinks],
      [features |-> FeaturesOf(<<"short_name" :> "TRPS-A">>), links |-> StacLinks],
      [features |-> NcFeatures, links |-> <<>>],
      [features |-> <<Feature("granule1", "short_name" :> "MUSES-CrIS-Forward",
                               "granule.nc.xml" :> "metadata")>>,
       links |-> StacLinks] }

\* the surroundings of a trigger_app run in which every check passes
DefaultEnv ==
    [s3 |-> DefaultS3, cwl_exists |-> TRUE, docker_pull |-> "ghcr.io/unity-sds/tropess:1.2.0",
     cwl_get |-> 200, cwl_get_again |-> 200, stage_in_get |-> 200,
     catalog |-> DefaultCatalog,
     AIRFLOW_API_URL |-> "https://airflow.test/api/v1", AIRFLOW_DAG_NAME |-> None,
     ssm_fail |-> FALSE, ssm_value |-> "https://airflow.ssm/api/v1/",
     utc_now |-> "2024-01-05T10:00:00Z", post |-> DefaultPost]

\* surroundings that differ from DefaultEnv in the checks before the trigger
CheckEnvs ==
    { [DefaultEnv EXCEPT !.cwl_exists = c] : c \in BOOLEAN }
    \cup { [DefaultEnv EXCEPT !.docker_pull = "ghcr.io/unity-sds/tropess"],
           [DefaultEnv EXCEPT !.cwl_get = 404],
           [DefaultEnv EXCEPT !.cwl_get_again = 404],
           [DefaultEnv EXCEPT !.stage_in_get = 404] }

\* surroundings that differ from DefaultEnv in the trigger itself
DagEnvs ==
    { [DefaultEnv EXCEPT !.AIRFLOW_API_URL = u[1], !.ssm_fail = u[2],
                         !.AIRFLOW_DAG_NAME = d, !.post = p] :
        u \in {<<DefaultEnv.AIRFLOW_API_URL, FALSE>>, <<None, FALSE>>, <<None, TRUE>>},
        d \in {None, "tropess_dag"}, p \in PostAnswers }

IngestEnvs ==
    { [DefaultEnv EXCEPT !.s3 = s, !.cwl_exists = c] : s \in S3Answers, c \in BOOLEAN }
    \cup CheckEnvs \cup DagEnvs

PyTropessEnvs ==
    { [DefaultEnv EXCEPT !.catalog = c, !.cwl_exists = x] : c \in CatalogAnswers, x \in BOOLEAN }
    \cup CheckEnvs \cup DagEnvs

IngestInputs ==
    [input_data_ingest_path : {"2024/01", "run/a/", None},
     collection_group_keyword : {"reanalysis", "bogus"},
     input_data_base_path : {"s3://tropess-data/muses", None},
     collection_version : {"1", None},
     trigger : BOOLEAN]

BaseIngestInputs ==
    {a \in IngestInputs : /\ a.input_data_ingest_path = "2024/01"
                          /\ a.input_data_base_path # None
                          /\ a.collection_version # None}

PyTropessInputs ==
    [collection_group_keyword : {"reanalysis", "forward_stream", "bogus"},
     sensor_set_str : {None, "cris", "CrIS_JPSS1", "modis"},
     processing_date : {"2024-01-05", "01/05/2024", "someday"},
     product_type : {"summary"},
     processing_species : {None, "null", "O3, CO"},
     muses_collection_version : {"1"},
     granule_version : {None, "2"},
     trigger : BOOLEAN]

BasePyTropessInputs ==
    {a \in PyTropessInputs : /\ a.collection_group_keyword # "bogus"
                             /\ a.sensor_set_str \in {None, "cris"}
                             /\ a.processing_date = "2024-01-05"
                             /\ a.processing_species = None
                             /\ a.granule_version = "2"}

\* features as the catalog reports them for the query_data command
ProductProps(short_name, species, datetime) ==
    [collection_group |-> "forward_stream", sensor_set |-> "CrIS", product_stage |-> "L2",
     product_type |-> "standard", short_name |-> short_name,
     long_name |-> "TROPESS CrIS L2 standard", product_version |-> "v1",
     species |-> species, processing_datetime |-> datetime]
Archived(props) == ("archive_status" :> "cnm_r_success") @@ props
MusesProps ==
    [collection_group |-> "forward_stream", sensor_set |-> "CrIS", product_stage |-> "MUSES",
     product_version |-> "v1", processing_datetime |-> "2024-01-05T00:00:00Z"]
UnityCrisId == "URN:NASA:UNITY:unity:ops:TRPS-CrIS-o3-standard-forward_stream___2"

GoodResponse ==
    [features |-> <<Feature(UnityCrisId \o ":TROPESS_CrIS_O3_20240105",
                            Archived(ProductProps("TRPS-A", "O3", "2024-01-05T00:00:00Z")),
                            NcAssets),
                    Feature("TROPESS_CrIS_CO_20240104",
                            ProductProps("TRPS-A", "CO", "01/04/2024"), EmptyAssets),
                    Feature("TROPESS_CrIS_CH4_20240105",
                            ProductProps("TRPS-A", "CH4", "2024-01-05"), NcAssets)>>,
     links |-> StacLinks]
QueryResponses ==
    { GoodResponse,
      [message |-> "Internal Server Error"],
      [features |-> <<>>, links |-> StacLinks],
      [features |-> <<Feature("g1", ProductProps("TRPS-A", "O3", "2024-01-05"), NcAssets),
                      Feature("g2", ProductProps("TRPS-B", "CO", "2024-01-05"), NcAssets)>>,
       links |-> StacLinks],
      [features |-> <<Feature("m1", MusesProps, NcAssets)>>, links |-> StacLinks] }

CatalogListing ==
    << "URN:NASA:UNITY:unity:ops:MUSES-CrIS-Forward___1", UnityCrisId, ":MUSES-first",
       "URN:NASA:UNITY:unity:ops:OTHER___1" >>

DefaultQueryEnv ==
    [responses |-> [i \in 1..3 |-> GoodResponse], listing |-> CatalogListing,
     output_dir_exists |-> TRUE,
     now |-> [current_time |-> "2024-01-05T10:00:00", id_time |-> "20240105T100000"]]

QueryEnvs ==
    { [DefaultQueryEnv EXCEPT !.responses = r, !.output_dir_exists = x] :
        r \in [1..3 -> QueryResponses], x \in BOOLEAN }

DefaultVersion == [is_int |-> TRUE, int |-> 2, str |-> ""]
QueryInputs ==
    [subparser_name : {"muses", "tropess"},
     collection_group_keyword : {None, "reanalysis", "forward_stream", "bogus"},
     sensor_set_str : {None, "cris"},
     processing_date : {None, "01/05/2024"},
     date_range : {NoRange, <<"2024-01-01", "Jan 5 2024">>},
     query_limit : {1000},
     write_stac_catalog : BOOLEAN,
     write_delete_message : BOOLEAN,
     output_dir : {None, "out"}]

BaseQueryInputs ==
    {a \in QueryInputs : /\ a.collection_group_keyword = "forward_stream"
                         /\ a.sensor_set_str = None
                         /\ a.date_range = NoRange
                         /\ a.write_stac_catalog = a.write_delete_message
                         /\ a.output_dir = "out"}

RECURSIVE SeqsUpTo(_, _)
SeqsUpTo(S, n) ==
    IF n = 0 THEN {<<>>}
    ELSE LET shorter == SeqsUpTo(S, n - 1)
         IN shorter \cup {Append(s, x) : s \in {t \in shorter : Len(t) = n - 1}, x \in S}

(***************************************************************************)
(* Init: the tool object after construction (MdpsTool.__init__), before    *)
(* any operation has run.                                                  *)
(***************************************************************************)
Init ==
    /\ \E id \in Identities : mdps_project = id[1] /\ mdps_venue = id[2]
    /\ op = "idle"
    /\ args = [script |-> "package"]
    /\ env = [none |-> TRUE]
    /\ calls = <<>>
    /\ logs = <<>>
    /\ err = NoError
    /\ value = None

Idle == op = "idle"

\* the state a finished run leaves behind
Finish(name, a, e, r) ==
    /\ op' = name
    /\ args' = a
    /\ env' = e
    /\ calls' = r.calls
    /\ logs' = r.logs
    /\ err' = r.err
    /\ value' = r.val
    /\ UNCHANGED <<mdps_project, mdps_venue>>

\* the process exits; the next command starts from a fresh tool object
Exit ==
    /\ ~Idle
    /\ op' = "idle"
    /\ args' = [script |-> "package"]
    /\ env' = [none |-> TRUE]
    /\ calls' = <<>>
    /\ logs' = <<>>
    /\ err' = NoError
    /\ value' = None
    /\ UNCHANGED <<mdps_project, mdps_venue>>

(***************************************************************************)
(* mdps_collection_ids called on an arbitrary short-name list.             *)
(***************************************************************************)
CallMdpsCollectionIds ==
    /\ Idle
    /\ \E sc \in Scripts, names \in SeqsUpTo(ShortNameInputs, MaxShortNames), v \in Versions :
        Finish("mdps_collection_ids",
               [script |-> sc, tropess_short_names |-> names, collection_version |-> v],
               [none |-> TRUE],
               Run(<<>>, <<>>, NoError,
                   IF sc = "package"
                   THEN mdps_collection_ids(mdps_project, mdps_venue, names, v)
                   ELSE legacy_mdps_collection_ids(mdps_project, mdps_venue, names, v)))

(***************************************************************************)
(* init_data_services: the three sub-commands.                             *)
(***************************************************************************)
\* the number of identifiers a group yields (TROPESS and MUSES families)
NumIds(keyword, sc) ==
    IF keyword \notin GroupKeywords THEN 0
    ELSE Len(collection_groups[keyword].combinations)
         + (IF sc = "package" THEN Len(collection_groups[keyword].sensor_sets) ELSE 0)

RegisterCollection ==
    /\ Idle
    /\ \E sc \in Scripts, kw \in GroupKeywords \cup {"no_such_group"},
          gv \in Versions, mv \in MusesVersions, upd \in BOOLEAN, chk \in BOOLEAN :
       /\ sc = "legacy" => kw \in GroupKeywords /\ mv = "1"
       /\ \E cf \in (IF upd THEN 0..NumIds(kw, sc) ELSE {0}),
             listing \in (IF chk THEN {"none", "first", "all"} ELSE {"none"}) :
          LET a == [script |-> sc, collection_group_keyword |-> kw, granule_version |-> gv,
                    muses_collection_version |-> mv, do_update |-> upd, check_update |-> chk]
              e == [create_fail |-> cf, listing |-> listing]
          IN Finish("register_collection_ids", a, e,
                    IF sc = "package"
                    THEN register_collection_ids(mdps_project, mdps_venue, kw, gv, mv, upd, chk, e)
                    ELSE legacy_register_collection_ids(mdps_project, mdps_venue, kw, gv, upd, chk, e))

CustomMetadata ==
    /\ Idle
    /\ \E upd \in BOOLEAN, platform \in SeqsUpTo(PlatformVariables, MaxCollections) :
       \E fault \in Faults(Len(platform)), df \in (IF upd THEN BOOLEAN ELSE {FALSE}) :
          LET a == [script |-> "package", do_update |-> upd]
              e == [platform |-> platform, variables_fault |-> fault, define_fail |-> df]
          IN Finish("define_custom_metadata", a, e, define_custom_metadata(upd, e))

RegisterArchive ==
    /\ Idle
    /\ \E sc \in Scripts, kw \in GroupKeywords \cup {"no_such_group"}, gv \in Versions,
          upd \in BOOLEAN, del \in BOOLEAN :
       /\ sc = "legacy" => kw \in GroupKeywords
       /\ LET n == IF kw \in GroupKeywords THEN Len(collection_groups[kw].combinations) ELSE 0
          IN \E dfault \in (IF del THEN Faults(n) ELSE {NoFault}),
                pfault \in (IF upd THEN Faults(n) ELSE {NoFault}),
                gfault \in Faults(n) :
             /\ dfault.at # 0 /\ pfault.at # 0 => dfault.resp = pfault.resp
             /\ gfault.at # 0 => (dfault.at = 0 /\ pfault.at = 0)
             /\ LET a == [script |-> sc, collection_group_keyword |-> kw,
                          granule_version |-> gv, sns_arn |-> "arn:aws:sns:daac",
                          role_arn |-> "arn:aws:iam:daac", role_session_name |-> "tropess_request",
                          provider |-> "tropess_cloud", do_update |-> upd, delete |-> del]
                    e == [delete_fault |-> dfault, put_fault |-> pfault, get_fault |-> gfault]
                IN Finish("register_daac_archiving", a, e,
                          IF sc = "package"
                          THEN register_daac_archiving(mdps_project, mdps_venue, a, e)
                          ELSE legacy_register_daac_archiving(mdps_project, mdps_venue, a, e))

(***************************************************************************)
(* DataTool.query_data_catalog and DataQuery.get_constant_property called  *)
(* on their own.                                                           *)
(***************************************************************************)
QueryDataCatalog ==
    /\ Idle
    /\ \E d \in DateInputs \cup {None}, r \in RangeInputs \cup {NoRange},
          response \in StacResponses :
          LET id == mdps_collection_ids(mdps_project, mdps_venue, <<"MUSES-CrIS-Forward">>, "1")[1]
              a == [script |-> "package", mdps_collection_id |-> id,
                    processing_date |-> d, date_range |-> r, limit |-> 1000]
          IN Finish("query_data_catalog", a, [response |-> response],
                    query_data_catalog(id, d, r, 1000, response))

GetConstantProperty ==
    /\ Idle
    /\ \E props \in SeqsUpTo(ShortNameProps, MaxFeatures), required \in BOOLEAN,
          has_features \in BOOLEAN :
          /\ ~has_features => props = <<>>
          /\ LET stac == IF has_features
                         THEN [features |-> FeaturesOf(props), links |-> StacLinks]
                         ELSE [message |-> "Internal Server Error"]
                 a == [script |-> "package", stac |-> stac, prop_name |-> "short_name",
                       required |-> required]
             IN Finish("get_constant_property", a, [none |-> TRUE],
                       get_constant_property(stac, "short_name", required))

(***************************************************************************)
(* _find_sensor_set called on its own with a string.                       *)
(***************************************************************************)
SensorSetQueries == {"airs", "cris", "CrIS_JPSS1", "AIRS_OMI", "modis", "CRIS"}

FindSensorSet ==
    /\ Idle
    /\ \E sc \in Scripts, kw \in GroupKeywords, q \in SensorSetQueries :
          Finish("_find_sensor_set",
                 [script |-> sc, collection_group_keyword |-> kw, sensor_set_query |-> q],
                 [none |-> TRUE],
                 IF sc = "package"
                 THEN _find_sensor_set(collection_groups[kw], q)
                 ELSE legacy_find_sensor_set(collection_groups[kw], q))

(***************************************************************************)
(* DataTool.muses_short_names called on its own: for a group, with no      *)
(* sensor set or with a sensor-set object.                                 *)
(***************************************************************************)
MusesShortNames ==
    /\ Idle
    /\ \E kw \in GroupKeywords, sensor_set \in {NoObject, SensorAirs, SensorCris} :
          Finish("muses_short_names",
                 [script |-> "package", collection_group_keyword |-> kw,
                  sensor_set |-> sensor_set],
                 [none |-> TRUE],
                 Ok(muses_short_names(collection_groups[kw], sensor_set)))

(***************************************************************************)
(* DataQuery.feat_is_archived and DataQuery.stac_date_status called on     *)
(* their own.                                                              *)
(***************************************************************************)
ArchiveStatusInputs == {"cnm_r_success", "CNM_R_SUCCESS", "cnm_r_failure", "cnm_r_success ",
                        "", None}
ArchiveProps ==
    {EmptyProps, "short_name" :> "TRPS-A"}
    \cup {"archive_status" :> v : v \in ArchiveStatusInputs}
    \cup {("archive_status" :> v) @@ ("short_name" :> "TRPS-A") : v \in ArchiveStatusInputs}

FeatIsArchived ==
    /\ Idle
    /\ \E props \in ArchiveProps :
          LET feat == Feature("granule1", props, EmptyAssets)
          IN Finish("feat_is_archived", [script |-> "package", feat |-> feat],
                    [none |-> TRUE], Ok(feat_is_archived(feat)))

DateTimeInputs == {"2024-01-05T00:00:00Z", "Jan 5 2024", "2024-01-03", "someday"}
DatedProps ==
    {"processing_datetime" :> d : d \in DateTimeInputs}
    \cup {Archived("processing_datetime" :> d) : d \in DateTimeInputs}

StacDateStatus ==
    /\ Idle
    /\ \E props \in SeqsUpTo(DatedProps, MaxFeatures) :
          LET stac == [features |-> FeaturesOf(props), links |-> StacLinks]
          IN Finish("stac_date_status", [script |-> "package", stac |-> stac],
                    [none |-> TRUE], stac_date_status(stac))

(***************************************************************************)
(* DataQuery.display_collection_summary called on its own, on a list of    *)
(* collection ids and the query result of each.                            *)
(***************************************************************************)
SummaryIds ==
    [i \in 1..MaxCatalogs |->
        IF i = 1 THEN UnityCrisId
        ELSE "URN:NASA:UNITY:unity:ops:TRPS-" \o ToString(i) \o "___2"]

DisplayCollectionSummary ==
    /\ Idle
    /\ \E stac_catalogs \in SeqsUpTo(QueryResponses, MaxCatalogs),
          processing_date \in {None, "01/05/2024"} :
          Finish("display_collection_summary",
                 [script |-> "package", mdps_collection_ids |-> SummaryIds,
                  stac_catalogs |-> stac_catalogs, processing_date |-> processing_date],
                 [none |-> TRUE],
                 display_collection_summary(SummaryIds, stac_catalogs, processing_date))

(***************************************************************************)
(* DataQuery.write_delete_message called on its own, on query results as   *)
(* query_data passes them (each has its 'features').                       *)
(***************************************************************************)
WriteDeleteMessage ==
    /\ Idle
    /\ \E stac_catalogs \in SeqsUpTo({r \in QueryResponses : "features" \in DOMAIN r},
                                      MaxCatalogs) :
          Finish("write_delete_message",
                 [script |-> "package", data_collection_ids |-> SummaryIds,
                  stac_catalogs |-> stac_catalogs, collection_version |-> "2",
                  output_dir |-> "out"],
                 [now |-> DefaultQueryEnv.now],
                 write_delete_message(SummaryIds, stac_catalogs, "2", "out",
                                      DefaultQueryEnv.now))

(***************************************************************************)
(* trigger_app: the two sub-commands, run from main().  The stand-alone    *)
(* script requires --sensor_set.                                           *)
(***************************************************************************)
WithScript(a, sc) == a @@ [script |-> sc]

DataIngest ==
    /\ Idle
    /\ \E sc \in Scripts, a \in IngestInputs, e \in IngestEnvs :
          /\ a \in BaseIngestInputs \/ e = DefaultEnv
          /\ Finish("data_ingest", WithScript(a, sc), e,
                    IF sc = "package"
                    THEN trigger_main(mdps_project, mdps_venue, "data_ingest", a, e)
                    ELSE legacy_trigger_main(mdps_project, mdps_venue, "data_ingest", a, e))

PyTropess ==
    /\ Idle
    /\ \E sc \in Scripts, a \in PyTropessInputs, e \in PyTropessEnvs :
          /\ a \in BasePyTropessInputs \/ e = DefaultEnv
          /\ sc = "legacy" => a.sensor_set_str # None
          /\ Finish("py_tropess", WithScript(a, sc), e,
                    IF sc = "package"
                    THEN trigger_main(mdps_project, mdps_venue, "py_tropess", a, e)
                    ELSE legacy_trigger_main(mdps_project, mdps_venue, "py_tropess", a, e))

(***************************************************************************)
(* Two invocations of the py_tropess sub-command, as dry runs, that differ *)
(* in at most one input; the run_id each sends is in its request body.     *)
(***************************************************************************)
UnitInputs ==
    [collection_group_keyword : {"reanalysis", "forward_stream"},
     sensor_set_str : {"cris", "airs"},
     processing_date : {"2024-01-05", "01/05/2024", "2024-01-03"},
     product_type : {"summary", "standard"},
     processing_species : {None, "O3, CO", "CO"},
     docker_pull : {"ghcr.io/unity-sds/tropess:1.2.0", "ghcr.io/unity-sds/tropess:1.3.0"}]

\* the dag_run_id of the request body a run built (None when it built none)
RunIdOf(r) ==
    LET built == {i \in 1..Len(r.logs) : r.logs[i].msg = "DAG parameters"}
    IN IF built = {} THEN None ELSE r.logs[Min(built)].data.dag_run_id

DryPyTropess(sc, project, venue, u) ==
    LET a == u @@ [muses_collection_version |-> "1", granule_version |-> "2",
                   trigger |-> FALSE]
        e == [DefaultEnv EXCEPT !.docker_pull = u.docker_pull]
    IN IF sc = "package" THEN trigger_main(project, venue, "py_tropess", a, e)
       ELSE legacy_trigger_main(project, venue, "py_tropess", a, e)

PyTropessTwice ==
    /\ Idle
    /\ \E sc \in Scripts, first \in UnitInputs, second \in UnitInputs :
          /\ Cardinality({f \in DOMAIN first : first[f] # second[f]}) <= 1
          /\ Finish("py_tropess_twice",
                    [script |-> sc, first |-> first, second |-> second],
                    [none |-> TRUE],
                    Ok(<<RunIdOf(DryPyTropess(sc, mdps_project, mdps_venue, first)),
                         RunIdOf(DryPyTropess(sc, mdps_project, mdps_venue, second))>>))

(***************************************************************************)
(* query_data: the command, run from main().  --muses_version defaults to  *)
(* the string "1", --tropess_version to the integer 2.                     *)
(***************************************************************************)
QueryData ==
    /\ Idle
    /\ \E q \in QueryInputs, e \in QueryEnvs :
          /\ q \in BaseQueryInputs \/ e = DefaultQueryEnv
          /\ LET version == IF q.subparser_name = "muses"
                            THEN [is_int |-> FALSE, int |-> 0, str |-> "1"]
                            ELSE DefaultVersion
                 a == q @@ [script |-> "package", collection_version |-> version]
             IN Finish("query_data", a, e, query_main(mdps_project, mdps_venue, a, e))

(***************************************************************************)
(* TropessDAGRunner.trigger_dag called on its own.                         *)
(***************************************************************************)
TriggerDagInputs ==
    [process_workflow : {DEPLOY_FILES_BASE_URL \o "py-tropess/process-unity-ops.cwl"},
     run_id : {"TROPESS-py_tropess_1.2.0-reanalysis-cris-2024-01-05-summary",
               "TROPESS-data_ingest_1.2.0-reanalysis:2024-01"},
     process_args : { << <<"product_type", "summary">>, <<"granule_version", None>> >>,
                      << <<"input_data_ingest_path", "2024/01">> >> },
     stac_json : {"https://catalog/query"},
     use_ecr : {TRUE},
     use_stac_auth : BOOLEAN,
     trigger : BOOLEAN]

TriggerDag ==
    /\ Idle
    /\ \E sc \in Scripts, a \in TriggerDagInputs, e \in DagEnvs :
          Finish("trigger_dag", WithScript(a, sc), e,
                 IF sc = "package"
                 THEN trigger_dag(mdps_project, mdps_venue, a.process_workflow, a.run_id,
                                  a.process_args, a.stac_json, a.use_ecr, a.use_stac_auth,
                                  a.trigger, e)
                 ELSE legacy_trigger_dag(mdps_project, mdps_venue, a.process_workflow, a.run_id,
                                         a.process_args, a.stac_json, a.use_ecr,
                                         a.use_stac_auth, a.trigger, e))

(***************************************************************************)
(* One REST request of TropessDataInit on its own: the archive GET, PUT    *)
(* and DELETE of one collection, and the variables GET of a platform with  *)
(* one collection.  The response may carry any of the attributes the code  *)
(* asks for with hasattr.                                                  *)
(***************************************************************************)
RestRequests ==
    {"get_archive_config", "add_archive_config", "delete_archive_config",
     "existing_custom_metadata"}
RestResponses ==
    {OkResponse} \cup BadResponses
    \cup { [status_code |-> 403, attrs |-> {"test"}, json_ok |-> FALSE],
           [status_code |-> 404, attrs |-> {"test", "message"}, json_ok |-> TRUE],
           [status_code |-> 201, attrs |-> {}, json_ok |-> TRUE] }

RestCall ==
    /\ Idle
    /\ \E rq \in RestRequests, response \in RestResponses, variables \in PlatformVariables :
       /\ rq # "existing_custom_metadata" => variables = EmptyDict
       /\ LET id == mdps_collection_ids(mdps_project, mdps_venue, <<"TRPS-A">>, "1")[1]
              a == [script |-> "package", request |-> rq, mdps_collection_id |-> id,
                    daac_collection_id |-> "TRPS-A", granule_version |-> "1",
                    sns_arn |-> "arn:aws:sns:daac", role_arn |-> "arn:aws:iam:daac",
                    role_session_name |-> "tropess_request", provider |-> "tropess_cloud",
                    do_update |-> TRUE]
              e == [response |-> response, variables |-> variables]
          IN Finish(rq, a, e,
                 CASE rq = "get_archive_config" -> get_archive_config(id, response)
                   [] rq = "add_archive_config" ->
                        add_archive_config(id, a.daac_collection_id, a, TRUE, response)
                   [] rq = "delete_archive_config" ->
                        delete_archive_config(id, a.daac_collection_id, response)
                   [] OTHER ->
                        existing_custom_metadata(<<variables>>, [at |-> 1, resp |-> response]))

(***************************************************************************)
(* build_applications.py: DeployApp.update_artifacts.  e.template is what  *)
(* `cwltool --make-template` prints for the new CWL file, e.example the    *)
(* example_job_input.json found on disk (if any); a JSON or YAML mapping   *)
(* is a function from its keys to its values.  The method is modelled as   *)
(* its body reads; the class statement above it declares an __init__ with  *)
(* `**vargs, **kwargs`, which Python does not accept.                      *)
(***************************************************************************)
DEPLOY_BASE_DIR == "/deploy/tropess_deploy/cmd"
APP_STATE_DIR == path_join(DEPLOY_BASE_DIR, ".app_state")
ARTIFACT_DIRS == [muses_ingest |-> "mdps-muses-data-ingest", py_tropess |-> "py-tropess"]
SOURCE_CWL_ARTIFACT_FILENAME == "process.cwl"
DEST_CWL_ARTIFACT_FILENAME(project_name, venue_name) ==
    "process-" \o project_name \o "-" \o venue_name \o ".cwl"
EXAMPLE_JOB_INPUT_FILENAME == "example_job_input.json"

\* the app_state_dir property: the directory is made when it is not there
app_state_dir(app_name, exists) ==
    IF exists THEN Ok(path_join(APP_STATE_DIR, app_name))
    ELSE Then(Issue("makedirs", path_join(APP_STATE_DIR, app_name)),
              Ok(path_join(APP_STATE_DIR, app_name)))

update_artifacts(project, venue, app_name, e) ==
    LET app_artifact_dirname == ARTIFACT_DIRS[app_name]
        dest_cwl_fn == path_join(path_join(DEPLOY_BASE_DIR, app_artifact_dirname),
                                 DEST_CWL_ARTIFACT_FILENAME(project, venue))
        example_job_filename == path_join(app_artifact_dirname, EXAMPLE_JOB_INPUT_FILENAME)
        yaml_contents == IF e.example.exists
                         THEN DictUpdate(e.template, e.example.contents)
                         ELSE e.template
        ex_inp_contents == IF e.example.exists THEN e.example.contents ELSE yaml_contents
    IN Then(Log("Capturing artifacts", app_name),
       Bind(app_state_dir(app_name, e.state_dir_exists), LAMBDA state_dir :
       Then(Issue("build_cwl", state_dir),
       Then(Issue("copyfile",
                  [src |-> path_join(path_join(state_dir, "cwl"), SOURCE_CWL_ARTIFACT_FILENAME),
                   dst |-> dest_cwl_fn]),
       Then(Issue("cwltool --make-template", dest_cwl_fn),
       Then(IF e.cwltool_ok THEN Ok(None)
            ELSE Throw("CalledProcessError", "cwltool --make-template"),
            Issue("write_file", [name |-> example_job_filename,
                                 json |-> ex_inp_contents])))))))

AppNames == {"muses_ingest", "py_tropess"}
\* templates cwltool generates, and example files as they may stand on disk
JobTemplates ==
    { "input_path" :> "a_string",
      ("input_path" :> "a_string") @@ ("granule_version" :> "a_string"),
      ("granule_version" :> "a_string") @@ ("product_type" :> "a_string") }
NoExample == [exists |-> FALSE, contents |-> "input_path" :> "a_string"]
JobExamples ==
    {NoExample}
    \cup { [exists |-> TRUE, contents |-> c] :
             c \in { "input_path" :> "s3://bucket/manual",
                     ("input_path" :> "s3://bucket/manual") @@ ("granule_version" :> "2"),
                     ("input_path" :> "a_string") @@ ("retired_option" :> "x") } }

UpdateArtifacts ==
    /\ Idle
    /\ \E app_name \in AppNames, template \in JobTemplates, example \in JobExamples,
          made \in BOOLEAN, ok \in BOOLEAN :
          Finish("update_artifacts", [script |-> "package", app_name |-> app_name],
                 [template |-> template, example |-> example,
                  state_dir_exists |-> made, cwltool_ok |-> ok],
                 update_artifacts(mdps_project, mdps_venue, app_name,
                                  [template |-> template, example |-> example,
                                   state_dir_exists |-> made, cwltool_ok |-> ok]))

Next ==
    \/ CallMdpsCollectionIds
    \/ RegisterCollection
    \/ CustomMetadata
    \/ RegisterArchive
    \/ QueryDataCatalog
    \/ GetConstantProperty
    \/ FindSensorSet
    \/ MusesShortNames
    \/ FeatIsArchived
    \/ StacDateStatus
    \/ DisplayCollectionSummary
    \/ WriteDeleteMessage
    \/ DataIngest
    \/ PyTropess
    \/ PyTropessTwice
    \/ TriggerDag
    \/ QueryData
    \/ RestCall
    \/ UpdateArtifacts
    \/ Exit

Spec == Init /\ [][Next]_vars

(***************************************************************************)
(* Properties.                                                             *)
(***************************************************************************)
InitOps == {"register_collection_ids", "define_custom_metadata", "register_daac_archiving"}
DryRun == op \in InitOps /\ ~args.do_update

\* C1 (as stated): with do_update unset, whatever check_update and delete are,
\* no run of a data-services operation issues a mutating call (create_collection,
\* define_custom_metadata, archive PUT, archive DELETE).
C1_DryRunNoMutation ==
    DryRun => CallNames(calls) \cap {"create_collection", "define_custom_metadata",
                                     "PUT archive", "DELETE archive"} = {}

\* C1 (amended): with do_update unset no create_collection, define_custom_metadata
\* or archive PUT is issued, and no archive DELETE unless delete is set; with delete
\* set register_daac_archiving issues the archive DELETEs also in a dry run (one per
\* collection id when none fails).  A dry run of register_collection_ids still
\* derives and logs the identifiers.
C1_DryRunAmended ==
    DryRun =>
        /\ CallNames(calls) \cap {"create_collection", "define_custom_metadata",
                                  "PUT archive"} = {}
        /\ "DELETE archive" \in CallNames(calls)
              => op = "register_daac_archiving" /\ args.delete
        /\ (/\ op = "register_daac_archiving" /\ args.delete
            /\ args.collection_group_keyword \in GroupKeywords
            /\ env.delete_fault.at = 0)
              => CountCalls(calls, "DELETE archive")
                   = Len(collection_groups[args.collection_group_keyword].combinations)
        /\ (op = "register_collection_ids" /\ args.collection_group_keyword \in GroupKeywords)
              => /\ Len(value) > 0
                 /\ \E i \in 1..Len(logs) :
                       logs[i].msg = "Generated collection ids" /\ logs[i].data = value

\* C1 witness: a dry run of register_daac_archiving with delete set that went
\* through its deletes, its (dry) adds and its read-backs
C1_Witness ==
    /\ DryRun /\ op = "register_daac_archiving" /\ args.delete
    /\ err = NoError
    /\ "DELETE archive" \in CallNames(calls)
    /\ "GET archive" \in CallNames(calls)

NetworkCalls == {"s3 list_objects", "GET", "ssm get_parameter", "get_token", "POST dagRuns"}
MissingCwl == op = "data_ingest" /\ ~env.cwl_exists
MissingCwlError ==
    Raise("Exception", "Could not find process CWL file: mdps-muses-data-ingest/process-"
                       \o mdps_project \o "-" \o mdps_venue \o ".cwl")

\* C2 (as stated): data_ingest with the local workflow file process-{project}-{venue}.cwl
\* missing fails before any network call: no S3 listing, no HTTP GET, no
\* parameter-store lookup, no workflow POST.
C2_MissingCwlBeforeNetwork ==
    MissingCwl => err # NoError /\ CallNames(calls) \cap NetworkCalls = {}

\* the arguments data_ingest asserts are given, and the S3 listing shows the path with
\* both expected sub-directories
IngestArgsGiven ==
    /\ args.input_data_ingest_path # None /\ args.input_data_base_path # None
    /\ args.collection_version # None
S3PathVerified ==
    /\ ~env.s3.fail /\ env.s3.contents
    /\ {"L2_Products", "L2_Products_Lite"} \subseteq SeqToSet(env.s3.subdirs)

\* C2 (amended): data_ingest with the local workflow file missing fails before any
\* HTTP GET, parameter-store lookup, token request or workflow POST, but after the S3
\* listing of the input path, which data_ingest issues first (once, when its arguments
\* are given and, in the package, the collection keyword is valid).  When the S3
\* verification passes and the collection keyword is valid, the error is "Could not
\* find process CWL file: mdps-muses-data-ingest/process-{project}-{venue}.cwl".
C2_MissingCwlAfterS3 ==
    MissingCwl =>
        /\ err # NoError
        /\ CallNames(calls) \subseteq {"s3 list_objects"}
        /\ (IngestArgsGiven /\ (args.script = "package"
                                  => args.collection_group_keyword \in GroupKeywords))
              => CountCalls(calls, "s3 list_objects") = 1
        /\ (IngestArgsGiven /\ S3PathVerified /\ args.collection_group_keyword \in GroupKeywords)
              => err = MissingCwlError

\* C2 witness: a data_ingest run that listed the S3 path and then failed on the
\* missing workflow file
C2_Witness ==
    /\ MissingCwl /\ err = MissingCwlError
    /\ CallNames(calls) = {"s3 list_objects"}

TriggerOps == {"trigger_dag", "data_ingest", "py_tropess"}
ResolvedFromEnv == env.AIRFLOW_API_URL # None
ExpectedDagName ==
    IF env.AIRFLOW_DAG_NAME # None THEN env.AIRFLOW_DAG_NAME
    ELSE IF args.script = "package" THEN "cwl_dag_modular" ELSE "cwl_dag_modular_unity"
ExpectedTriggerUrl ==
    (IF ResolvedFromEnv THEN "https://airflow.test/api/v1" ELSE "https://airflow.ssm/api/v1")
    \o "/dags/" \o ExpectedDagName \o "/dagRuns"
ConfKeys == {"process_args", "process_workflow", "stac_json", "request_instance_type",
             "request_storage", "use_ecr", "unity_stac_auth_type"}
FullBody(data) ==
    /\ DOMAIN data = {"dag_run_id", "logical_date", "conf"}
    /\ DOMAIN data.conf = ConfKeys
    /\ data.logical_date = env.utc_now
    /\ data.conf.request_instance_type = "t3.medium"
    /\ data.conf.request_storage = "10Gi"
    /\ data.conf.use_ecr = TRUE
    /\ op = "data_ingest" => data.conf.unity_stac_auth_type = FALSE
    /\ op = "py_tropess" => data.conf.unity_stac_auth_type = TRUE
    /\ op = "trigger_dag" =>
          /\ data.dag_run_id = args.run_id
          /\ data.conf.process_workflow = args.process_workflow
          /\ data.conf.stac_json = args.stac_json
          /\ data.conf.unity_stac_auth_type = args.use_stac_auth
DryTriggerLogged ==
    \E i, j, k \in 1..Len(logs) :
        /\ i < j /\ j < k
        /\ logs[i].msg = "Using Airflow API URL" /\ logs[i].data = ExpectedTriggerUrl
        /\ logs[j].msg = "DAG parameters" /\ FullBody(logs[j].data)
        /\ logs[k].msg = "process_args from DAG parameters as one line"
        /\ logs[k].data = logs[j].data.conf.process_args
        /\ logs[Len(logs)].msg = "Airflow DAG dry-run only"

\* C3: trigger_dag with trigger false never POSTs to the workflow engine, whether
\* called on its own or from data_ingest or py_tropess; it resolves the engine URL
\* (from AIRFLOW_API_URL, else by one parameter-store lookup, failing there if the
\* lookup fails), requests the bearer token once, builds the full request body and
\* logs the URL, the body and the dry-run notice, and returns normally.
C3_DryRunTrigger ==
    (op \in TriggerOps /\ ~args.trigger) =>
        /\ CountCalls(calls, "POST dagRuns") = 0
        /\ (op = "trigger_dag" \/ err = NoError) =>
              IF ~ResolvedFromEnv /\ env.ssm_fail
              THEN /\ err = Raise("ClientError", "ParameterNotFound")
                   /\ CountCalls(calls, "ssm get_parameter") = 1
                   /\ CountCalls(calls, "get_token") = 0
              ELSE /\ err = NoError
                   /\ CountCalls(calls, "ssm get_parameter") = (IF ResolvedFromEnv THEN 0 ELSE 1)
                   /\ CountCalls(calls, "get_token") = 1
                   /\ DryTriggerLogged

\* C3 witness: a py_tropess dry run that went through trigger_dag, resolving the URL
\* from the parameter store
C3_Witness ==
    /\ op = "py_tropess" /\ ~args.trigger /\ err = NoError
    /\ ~ResolvedFromEnv
    /\ CountCalls(calls, "get_token") = 1
    /\ DryTriggerLogged

\* C4 (as stated): trigger_dag with trigger true issues the POST; a response whose
\* status is not 200 makes it fail with "Error triggering Airflow DAG at {url}:
\* {response text}", whatever the body; a response with status 200 (and the JSON body
\* the engine sends with it) makes it return normally.
C4_TriggerOutcome ==
    (op = "trigger_dag" /\ args.trigger /\ (ResolvedFromEnv \/ ~env.ssm_fail)) =>
        /\ CountCalls(calls, "POST dagRuns") = 1
        /\ env.post.kind = "response" =>
              IF env.post.status_code # 200
              THEN err = Raise("Exception", "Error triggering Airflow DAG at "
                                   \o ExpectedTriggerUrl \o ": " \o env.post.text)
              ELSE env.post.json_ok => err = NoError

\* C5: every identifier mdps_collection_ids produces is exactly
\* URN:NASA:UNITY:{project}:{venue}:{short_name}___{version}, inputs embedded
\* verbatim, and the output has the length and order of the input list.
C5_IdentifierTemplate ==
    op = "mdps_collection_ids" =>
        /\ Len(value) = Len(args.tropess_short_names)
        /\ \A i \in 1..Len(value) :
              value[i] = "URN:NASA:UNITY:" \o mdps_project \o ":" \o mdps_venue \o ":"
                         \o args.tropess_short_names[i] \o "___" \o args.collection_version

\* the defining features of the scanned list, by position
Defining == {i \in 1..Len(args.stac.features) :
                "short_name" \in DOMAIN args.stac.features[i].properties}
PropAt(i) == args.stac.features[i].properties["short_name"]
\* the first feature whose value differs from an earlier defining feature (0: none)
FirstConflict ==
    LET bad == {j \in Defining : \E i \in Defining : i < j /\ PropAt(i) # PropAt(j)}
    IN IF bad = {} THEN 0 ELSE Min(bad)
ScanRun == op = "get_constant_property" /\ "features" \in DOMAIN args.stac

\* C6: get_constant_property returns the shared value when every defining feature
\* has the same value, and raises at the first feature whose value differs from an
\* earlier defining feature, naming its id and both values; features that do not
\* define the property are skipped.
C6_ConstantProperty ==
    ScanRun =>
        /\ (Defining # {} /\ FirstConflict = 0)
              => err = NoError /\ value = PropAt(Min(Defining))
        /\ FirstConflict # 0
              => /\ err.type = "Exception"
                 /\ \E i \in Defining :
                       /\ i < FirstConflict
                       /\ err.msg = "short_name does not have a consistent value "
                                    \o PropAt(FirstConflict) \o " for "
                                    \o args.stac.features[FirstConflict].id
                                    \o ", expected " \o PropAt(i)

MissingPropertyError == Raise("Exception", "No datasets define the short_name metadata")

\* C7: when no feature defines the property, get_constant_property raises the
\* missing-property error if required and returns None if not; it raises that
\* error in no other case.
C7_MissingProperty ==
    ScanRun =>
        /\ (Defining = {} /\ args.required) => err = MissingPropertyError
        /\ (Defining = {} /\ ~args.required) => err = NoError /\ value = None
        /\ err = MissingPropertyError => Defining = {}

CatalogRun == op = "query_data_catalog"
QueryIssued == CountCalls(calls, "get_collection_data") > 0
CatalogQueryError == Raise("Exception", "Error querying data catalog")

\* C8: query_data_catalog raises the catalog-query error if and only if the
\* backend response has no 'features' key; a response with an empty feature list
\* is returned unchanged.
C8_CatalogQueryError ==
    CatalogRun =>
        /\ err = CatalogQueryError <=> (QueryIssued /\ "features" \notin DOMAIN env.response)
        /\ (QueryIssued /\ "features" \in DOMAIN env.response)
              => err = NoError /\ value = env.response

\* C8 witness: an answered query whose feature list is empty, returned as it is
C8_Witness ==
    /\ CatalogRun /\ QueryIssued /\ err = NoError
    /\ "features" \in DOMAIN env.response
    /\ env.response.features = <<>>
    /\ value = env.response

\* the calendar day each accepted date string denotes, as YYYY-MM-DD
CalendarDay ==
    ("2024-01-05" :> "2024-01-05") @@ ("Jan 5 2024" :> "2024-01-05")
    @@ ("01/05/2024" :> "2024-01-05") @@ ("2024-01-01" :> "2024-01-01")
    @@ ("2024-01-03" :> "2024-01-03")
IssuedFilter == calls[1].target.filter

\* C9: the filter passed to the catalog is processing_datetime>='<s>' and
\* processing_datetime<='<e>' for date_range=[s,e], processing_datetime='<d>' for
\* processing_date=d alone, and no filter with neither (dates as YYYY-MM-DD).
C9_FilterForms ==
    (CatalogRun /\ QueryIssued) =>
        /\ Len(calls) = 1
        /\ IF args.date_range # NoRange
           THEN IssuedFilter = "processing_datetime>='" \o CalendarDay[args.date_range[1]]
                               \o "' and processing_datetime<='"
                               \o CalendarDay[args.date_range[2]] \o "'"
           ELSE IF args.processing_date # None
           THEN IssuedFilter = "processing_datetime='"
                               \o CalendarDay[args.processing_date] \o "'"
           ELSE IssuedFilter = None

\* C9 witness: the range 2024-01-01 .. 2024-01-03 reached the catalog as a filter
C9_Witness ==
    /\ CatalogRun /\ QueryIssued
    /\ args.date_range = <<"2024-01-01", "2024-01-03">>
    /\ IssuedFilter
         = "processing_datetime>='2024-01-01' and processing_datetime<='2024-01-03'"

BothSet == args.processing_date # None /\ args.date_range # NoRange
UsageError ==
    Raise("SystemExit", "argument -r/--date_range: not allowed with argument -d/--processing_date")

\* C10 (as stated): a call to query_data_catalog with both processing_date and
\* date_range set is rejected as a usage error instead of issuing a catalog query.
C10_BothSetRejected ==
    (CatalogRun /\ BothSet) => err # NoError /\ ~QueryIssued

\* C10 (amended): query_data_catalog does not reject a call with both processing_date
\* and date_range set: when the range parses it issues the query with the range filter
\* and ignores processing_date.  Only the query_data command rejects the two together,
\* as a usage error of its argument parser, before any call to the catalog; so every
\* catalog query of the query_data command carries at most one of the two.
C10_BothSetOnlyRejectedByCommand ==
    /\ (CatalogRun /\ BothSet /\ \A i \in 1..2 : args.date_range[i] \in DOMAIN CalendarDay)
          => /\ QueryIssued
             /\ IssuedFilter = "processing_datetime>='" \o CalendarDay[args.date_range[1]]
                               \o "' and processing_datetime<='"
                               \o CalendarDay[args.date_range[2]] \o "'"
    /\ (op = "query_data" /\ BothSet) => err = UsageError /\ calls = <<>>
    /\ (op = "query_data" /\ QueryIssued) => ~BothSet

\* C10 witness: the query_data command turned down a date together with a range
C10_Witness ==
    /\ op = "query_data" /\ BothSet
    /\ args.collection_group_keyword = "forward_stream"
    /\ err = UsageError

(***************************************************************************)
(* Batches of write calls.                                                 *)
(***************************************************************************)
\* the targets of the calls of one kind, in the order they were issued
BatchTargets(name) ==
    LET sel == SelectSeq(calls, LAMBDA c : c.call = name)
    IN [i \in 1..Len(sel) |-> sel[i].target]
\* the identifiers a data-services run works through, in order
TropessIds ==
    LET names == collection_group_short_names(collection_groups[args.collection_group_keyword],
                                              NoObject)
    IN IF args.script = "package"
       THEN mdps_collection_ids(mdps_project, mdps_venue, names, args.granule_version)
       ELSE legacy_mdps_collection_ids(mdps_project, mdps_venue, names, args.granule_version)
MusesIds ==
    mdps_collection_ids(mdps_project, mdps_venue,
                        muses_short_names(collection_groups[args.collection_group_keyword],
                                          NoObject),
                        args.muses_collection_version)
RegisteredBatch == IF args.script = "package" THEN TropessIds \o MusesIds ELSE TropessIds
CreateFailed == op = "register_collection_ids" /\ env.create_fail > 0
DeleteFailed == op = "register_daac_archiving" /\ env.delete_fault.at > 0
PutFailed == op = "register_daac_archiving" /\ env.delete_fault.at = 0 /\ env.put_fault.at > 0

\* C11: when the write call for item N of a batch fails (create_collection, archive
\* DELETE, archive PUT), the run fails, the writes issued are those of items 1..N in
\* order, the failed call is the last call of the run (no write for items N+1..end,
\* no later batch, no read-back), and no delete or undo follows a write that went
\* through.
C11_BatchAborts ==
    /\ CreateFailed =>
          /\ err # NoError
          /\ BatchTargets("create_collection") = SubSeq(RegisteredBatch, 1, env.create_fail)
          /\ CallNames(calls) = {"create_collection"}
    /\ DeleteFailed =>
          /\ err # NoError
          /\ BatchTargets("DELETE archive") = SubSeq(TropessIds, 1, env.delete_fault.at)
          /\ CallNames(calls) = {"DELETE archive"}
    /\ PutFailed =>
          /\ err # NoError
          /\ BatchTargets("PUT archive") = SubSeq(TropessIds, 1, env.put_fault.at)
          /\ calls[Len(calls)].call = "PUT archive"
          /\ CallNames(calls) \subseteq {"DELETE archive", "PUT archive"}
          /\ \A i, j \in 1..Len(calls) :
                (i < j /\ calls[i].call = "PUT archive") => calls[j].call = "PUT archive"

\* C11 witness: the second of three create_collection calls failed
C11_Witness ==
    /\ CreateFailed /\ env.create_fail = 2
    /\ Len(RegisteredBatch) >= 3
    /\ Len(calls) = 2 /\ err # NoError

(***************************************************************************)
(* One request per workflow run.                                           *)
(***************************************************************************)
PostIssued == CountCalls(calls, "POST dagRuns") > 0
PostFailed == env.post.kind = "timeout" \/ env.post.status_code # 200

\* C12: a run of trigger_dag, data_ingest or py_tropess issues at most one POST to the
\* workflow engine, only with trigger set, and the POST is the last call of the run:
\* after a failed POST (non-200 answer or transport error) the run fails with no
\* second POST, and after any POST there is no polling request.
C12_SinglePost ==
    op \in TriggerOps =>
        /\ CountCalls(calls, "POST dagRuns") <= 1
        /\ PostIssued =>
              /\ args.trigger
              /\ calls[Len(calls)].call = "POST dagRuns"
              /\ PostFailed => err # NoError

\* C12 witness: a py_tropess run whose POST was answered 500 and that stopped there
C12_Witness ==
    /\ op = "py_tropess" /\ args.trigger
    /\ env.post.kind = "response" /\ env.post.status_code = 500
    /\ CountCalls(calls, "POST dagRuns") = 1
    /\ err # NoError

(***************************************************************************)
(* Sensor-set resolution.                                                  *)
(***************************************************************************)
SensorSetRun == op = "_find_sensor_set"
QueriedGroup == collection_groups[args.collection_group_keyword]
IsGlobalKeyword == args.sensor_set_query \in {"airs", "cris"}
IsGroupAlias == args.sensor_set_query \in DOMAIN QueriedGroup.sensor_set_mappings
UnknownSensorSet ==
    Raise("Exception", "Could not determine sensor set from string: \""
                       \o args.sensor_set_query \o "\"")

\* C13: _find_sensor_set on a string returns the sensor set of the global table when
\* the string is one of its keywords (also when the string is an alias of the group
\* as well), else the sensor set the group's alias map gives for the string, else it
\* raises the unknown-sensor-set error naming the string.
C13_SensorSetResolution ==
    SensorSetRun =>
        IF IsGlobalKeyword
        THEN err = NoError /\ value.keyword = args.sensor_set_query
        ELSE IF IsGroupAlias
        THEN err = NoError /\ value = QueriedGroup.sensor_set_mappings[args.sensor_set_query]
        ELSE err = UnknownSensorSet

\* C13 witness: "airs" is a global keyword and, in the reanalysis group, an alias of
\* the CrIS sensor set; it resolved to the AIRS sensor set
C13_Witness ==
    /\ SensorSetRun /\ IsGlobalKeyword /\ IsGroupAlias
    /\ QueriedGroup.sensor_set_mappings[args.sensor_set_query].keyword = "cris"
    /\ err = NoError /\ value.keyword = "airs"

(***************************************************************************)
(* MUSES short names.                                                      *)
(***************************************************************************)
MusesName(sensor_set, group) == "MUSES-" \o sensor_set.short_name \o "-" \o group.short_name

\* C14: muses_short_names returns, with no sensor set given, one short name per sensor
\* set of the group, in the group's order (as many names as the group has sensor sets,
\* all different); with a sensor set given, exactly one short name, that of the
\* sensor set.
C14_MusesShortNames ==
    op = "muses_short_names" =>
        IF args.sensor_set = NoObject
        THEN /\ Len(value) = Len(QueriedGroup.sensor_sets)
             /\ \A i \in 1..Len(value) :
                   value[i] = MusesName(QueriedGroup.sensor_sets[i], QueriedGroup)
             /\ Cardinality(SeqToSet(value)) = Len(value)
        ELSE value = <<MusesName(args.sensor_set, QueriedGroup)>>

\* C14 witness: one name of the two-sensor group, for the sensor set given
C14_Witness ==
    /\ op = "muses_short_names"
    /\ args.collection_group_keyword = "forward_stream"
    /\ args.sensor_set = SensorCris
    /\ value = <<"MUSES-CrIS-Forward">>

(***************************************************************************)
(* Archive status and the per-date status.                                 *)
(***************************************************************************)
\* C15: feat_is_archived returns true if and only if the feature's properties hold
\* archive_status with exactly the value cnm_r_success; it returns false for another
\* string, for another case, for null and when the key is absent, and never raises.
C15_ArchivedPredicate ==
    op = "feat_is_archived" =>
        /\ err = NoError
        /\ value \in BOOLEAN
        /\ value <=> (/\ "archive_status" \in DOMAIN args.feat.properties
                      /\ args.feat.properties["archive_status"] = "cnm_r_success")
        /\ ("archive_status" \in DOMAIN args.feat.properties
              /\ args.feat.properties["archive_status"]
                    \in {"CNM_R_SUCCESS", "cnm_r_failure", "cnm_r_success ", "", None})
             => value = FALSE

\* C15 witness: a differently-cased status is not archived
C15_Witness ==
    /\ op = "feat_is_archived"
    /\ "archive_status" \in DOMAIN args.feat.properties
    /\ args.feat.properties["archive_status"] = "CNM_R_SUCCESS"
    /\ value = FALSE

\* the calendar day of each date-time the catalog may report, as YYYY-MM-DD
FeatureDay ==
    ("2024-01-05T00:00:00Z" :> "2024-01-05") @@ ("Jan 5 2024" :> "2024-01-05")
    @@ ("2024-01-03" :> "2024-01-03")
DateStatusRun == op = "stac_date_status"
ScannedFeatures == args.stac.features
AllDatesParse ==
    \A i \in 1..Len(ScannedFeatures) :
        ScannedFeatures[i].properties["processing_datetime"] \in DOMAIN FeatureDay
DayOf(i) == FeatureDay[ScannedFeatures[i].properties["processing_datetime"]]
OnDay(d) == {i \in 1..Len(ScannedFeatures) : DayOf(i) = d}
ArchivedOnDay(d) ==
    {i \in OnDay(d) : /\ "archive_status" \in DOMAIN ScannedFeatures[i].properties
                      /\ ScannedFeatures[i].properties["archive_status"] = "cnm_r_success"}
RECURSIVE SumCounts(_, _)
SumCounts(status, days) ==
    IF days = {} THEN 0
    ELSE LET d == CHOOSE x \in days : TRUE
         IN status[d].count + SumCounts(status, days \ {d})

\* C16: stac_date_status returns, for each calendar day that occurs among the features
\* (dates normalized to YYYY-MM-DD), count = the number of features of that day and
\* num_archived = the number of those that are archived; so 0 <= num_archived <= count,
\* count >= 1, and the counts add up to the number of features.
C16_DateStatusCounts ==
    (DateStatusRun /\ AllDatesParse) =>
        /\ err = NoError
        /\ DOMAIN value = {DayOf(i) : i \in 1..Len(ScannedFeatures)}
        /\ \A d \in DOMAIN value :
              /\ value[d].count = Cardinality(OnDay(d))
              /\ value[d].num_archived = Cardinality(ArchivedOnDay(d))
              /\ 0 <= value[d].num_archived /\ value[d].num_archived <= value[d].count
              /\ value[d].count >= 1
        /\ SumCounts(value, DOMAIN value) = Len(ScannedFeatures)

\* C16 witness: two features of one day written in two formats, one of them archived,
\* and a third of another day
C16_Witness ==
    /\ DateStatusRun /\ AllDatesParse /\ err = NoError
    /\ DOMAIN value = {"2024-01-05", "2024-01-03"}
    /\ value["2024-01-05"] = [count |-> 2, num_archived |-> 1]
    /\ ScannedFeatures[1].properties["processing_datetime"]
         # ScannedFeatures[2].properties["processing_datetime"]
    /\ DayOf(1) = DayOf(2)

(***************************************************************************)
(* The collection summary.                                                 *)
(***************************************************************************)
SummaryRun == op = "display_collection_summary"
SummaryLen == ZipLen(args.stac_catalogs, args.mdps_collection_ids)
HasNoFeatures(c) == "features" \notin DOMAIN c
IsEmptyCatalog(c) == "features" \in DOMAIN c /\ Len(c.features) = 0
EmptyNotices(k) ==
    {i \in 1..Len(logs) : /\ logs[i].msg = "print"
                          /\ logs[i].data = args.mdps_collection_ids[k] \o " is empty."}
OverviewsOf(k) ==
    {i \in 1..Len(logs) : /\ logs[i].msg = "print table"
                          /\ logs[i].data.table = "overview"
                          /\ logs[i].data.collection_id = args.mdps_collection_ids[k]}
\* the first table printed after log entry i, if any, opens another collection
NoTableOfItsOwn(i) ==
    \A j \in (i + 1)..Len(logs) :
        (/\ logs[j].msg = "print table"
         /\ \A m \in (i + 1)..(j - 1) : logs[m].msg # "print table")
        => logs[j].data.table = "overview"

\* C17: display_collection_summary prints '<id> is empty.' for a collection id whose
\* result has zero features, prints no overview and no date table for it, raises no
\* error because of it, and goes on to the remaining collection ids.
C17_EmptyCollection ==
    SummaryRun =>
        /\ (\A k \in 1..SummaryLen :
               \/ HasNoFeatures(args.stac_catalogs[k])
               \/ IsEmptyCatalog(args.stac_catalogs[k])
               \/ args.stac_catalogs[k] = GoodResponse)
             => err = NoError
        /\ \A k \in 1..SummaryLen :
              IsEmptyCatalog(args.stac_catalogs[k]) =>
                 /\ OverviewsOf(k) = {}
                 /\ Cardinality(EmptyNotices(k)) <= 1
                 /\ \A i \in EmptyNotices(k) : NoTableOfItsOwn(i)
                 /\ err = NoError =>
                       /\ Cardinality(EmptyNotices(k)) = 1
                       /\ \A j \in (k + 1)..SummaryLen :
                             IF IsEmptyCatalog(args.stac_catalogs[j])
                             THEN EmptyNotices(j) # {}
                             ELSE HasNoFeatures(args.stac_catalogs[j]) \/ OverviewsOf(j) # {}

\* C17 witness: an empty result between two results with features; the notice was
\* printed and the third collection got its overview
C17_Witness ==
    /\ SummaryRun /\ err = NoError
    /\ args.stac_catalogs = <<GoodResponse, [features |-> <<>>, links |-> StacLinks],
                              GoodResponse>>
    /\ Cardinality(EmptyNotices(2)) = 1
    /\ OverviewsOf(2) = {}
    /\ OverviewsOf(3) # {}

(***************************************************************************)
(* Delete messages.                                                        *)
(***************************************************************************)
DeleteRun == op = "write_delete_message"
\* (catalog, feature) positions of the features of the catalogs, in order
DeleteItems ==
    Flatten([c \in 1..ZipLen(args.data_collection_ids, args.stac_catalogs) |->
                [i \in 1..Len(args.stac_catalogs[c].features) |-> <<c, i>>]])
DeleteId(item) ==
    "delete-"
    \o product_id(args.stac_catalogs[item[1]].features[item[2]],
                  args.data_collection_ids[item[1]])
    \o "-" \o env.now.id_time
\* what the n-th file written is, id_key being the key the identifier is stored under
DeleteDocument(n, id_key) ==
    /\ calls[n].call = "write_file"
    /\ calls[n].target.name = args.output_dir \o "/" \o DeleteId(DeleteItems[n]) \o ".json"
    /\ DOMAIN calls[n].target.json
         = {"product", id_key, "collection", "provider", "version", "submissionTime"}
    /\ calls[n].target.json[id_key] = DeleteId(DeleteItems[n])
    /\ DOMAIN calls[n].target.json.collection = {"name", "version"}
    /\ calls[n].target.json.version = "1.3"
    /\ calls[n].target.json.submissionTime = env.now.current_time

\* C18 (as stated): write_delete_message writes one delete-request document per
\* feature of every non-empty catalog, in a file named delete-<product_id>-<timestamp>.json,
\* each with the keys product, identifier, collection (name and version), provider,
\* version "1.3" and submissionTime, identifier being delete-<product_id>-<timestamp>.
C18_DeleteMessages ==
    (DeleteRun /\ err = NoError) =>
        /\ Len(calls) = Len(DeleteItems)
        /\ \A n \in 1..Len(calls) : DeleteDocument(n, "identifier")

(***************************************************************************)
(* run_id and the unit of work.                                            *)
(***************************************************************************)
TwoRuns == op = "py_tropess_twice"
\* the two invocations are for the same unit of work
SameUnit ==
    /\ args.first.docker_pull = args.second.docker_pull
    /\ args.first.collection_group_keyword = args.second.collection_group_keyword
    /\ args.first.sensor_set_str = args.second.sensor_set_str
    /\ CalendarDay[args.first.processing_date] = CalendarDay[args.second.processing_date]
    /\ args.first.product_type = args.second.product_type
    /\ args.first.processing_species = args.second.processing_species

\* C19 (as stated): the run_id of a py_tropess run is a function of the inputs; two
\* invocations that differ in docker version, collection group, sensor set, calendar
\* date, product type or species list get different run_ids, and two invocations for
\* the same unit of work (the same calendar date written in different formats) get
\* the same run_id.
C19_RunIdPerUnit ==
    TwoRuns =>
        /\ value[1] # None /\ value[2] # None
        /\ SameUnit <=> value[1] = value[2]

(***************************************************************************)
(* The two identifier families of a collection group.                      *)
(***************************************************************************)
IdPrefix == "URN:NASA:UNITY:" \o mdps_project \o ":" \o mdps_venue \o ":"
SensorShortName == ("airs" :> "AIRS") @@ ("cris" :> "CrIS")
\* one id per (product, sensor set, species) combination of the group
TropessFamily ==
    [i \in 1..Len(QueriedGroup.combinations) |->
        LET c == QueriedGroup.combinations[i]
        IN IdPrefix \o "TRPS-" \o SensorShortName[c[2]] \o "-" \o c[3] \o "-" \o c[1]
           \o "-" \o args.collection_group_keyword \o "___" \o args.granule_version]
\* one id per sensor set of the group
MusesFamily ==
    [i \in 1..Len(QueriedGroup.sensor_sets) |->
        IdPrefix \o "MUSES-" \o QueriedGroup.sensor_sets[i].short_name \o "-"
        \o QueriedGroup.short_name \o "___" \o args.muses_collection_version]
BothFamilies == TropessFamily \o MusesFamily
\* the ids check_registered_collection_ids reported on, in order
CheckedIds ==
    LET sel == SelectSeq(logs, LAMBDA l : l.msg \in {"created succesfully",
                                                     "is not registered with MDPS"})
    IN [i \in 1..Len(sel) |-> sel[i].data]
RegisterRun ==
    /\ op = "register_collection_ids" /\ args.script = "package"
    /\ args.collection_group_keyword \in GroupKeywords

\* C20: register_collection_ids of the package derives, from the one collection group,
\* the TROPESS ids (one per valid product/sensor/species combination) at
\* granule_version followed by the MUSES ids (one per sensor set) at
\* muses_collection_version; this one list is what is registered with do_update,
\* logged without it, and checked with check_update.
C20_TwoFamilies ==
    (RegisterRun /\ err = NoError) =>
        /\ Len(BothFamilies) = Len(QueriedGroup.combinations) + Len(QueriedGroup.sensor_sets)
        /\ IF args.do_update
           THEN BatchTargets("create_collection") = BothFamilies
           ELSE /\ CountCalls(calls, "create_collection") = 0
                /\ \E i \in 1..Len(logs) :
                      logs[i].msg = "Generated collection ids" /\ logs[i].data = BothFamilies
        /\ CheckedIds = (IF args.check_update THEN BothFamilies ELSE <<>>)

\* C20 witness: three TROPESS ids at version v02 and two MUSES ids at version 3 were
\* registered and then checked
C20_Witness ==
    /\ RegisterRun /\ err = NoError
    /\ args.do_update /\ args.check_update
    /\ args.granule_version = "v02" /\ args.muses_collection_version = "3"
    /\ Len(TropessFamily) = 3 /\ Len(MusesFamily) = 2
    /\ BatchTargets("create_collection") = BothFamilies
    /\ CheckedIds = BothFamilies

(***************************************************************************)
(* REST calls to the catalog and archive services.                         *)
(***************************************************************************)
RestRun == op \in RestRequests
RestCallName ==
    CASE op = "get_archive_config" -> "GET archive"
      [] op = "add_archive_config" -> "PUT archive"
      [] op = "delete_archive_config" -> "DELETE archive"
      [] OTHER -> "GET variables"
\* the request of a REST run was sent, and it was the last thing the run did
RequestSentLast ==
    /\ CountCalls(calls, RestCallName) = 1
    /\ calls[Len(calls)].call = RestCallName
\* the variables GET that got the faulty response in a define_custom_metadata run
VariablesFaultHit ==
    /\ op = "define_custom_metadata"
    /\ env.variables_fault.at > 0
    /\ env.variables_fault.resp.status_code # 200

\* C21: every REST call (GET variables, GET archive, PUT archive, DELETE archive)
\* whose response status is not 200 ends in a raised error, whatever attributes the
\* response has, and hands no result to its caller (the caller, define_custom_metadata,
\* stops at that request and commits nothing); a 200 response with a JSON body returns
\* the decoded body.
C21_RestStatus ==
    /\ RestRun /\ env.response.status_code # 200
          => /\ err # NoError
             /\ err.type \in {"Exception", "JSONDecodeError"}
             /\ RequestSentLast
    /\ RestRun /\ env.response.status_code = 200 /\ env.response.json_ok
          => /\ err = NoError
             /\ RequestSentLast
             /\ op # "existing_custom_metadata" => value = [json_of |-> "archive"]
             /\ op = "existing_custom_metadata" => value = env.variables
    /\ VariablesFaultHit
          => /\ err # NoError
             /\ CountCalls(calls, "GET variables") = env.variables_fault.at
             /\ "define_custom_metadata" \notin CallNames(calls)

\* C21 witness: a DELETE answered 403 with a response that has the attribute the
\* code asks for first; the call raised.
C21_Witness ==
    /\ op = "delete_archive_config"
    /\ env.response.status_code = 403 /\ "test" \in env.response.attrs
    /\ err.type = "Exception" /\ RequestSentLast

(***************************************************************************)
(* Order of the archive requests of register_daac_archiving.               *)
(***************************************************************************)
ArchiveRun ==
    op = "register_daac_archiving" /\ args.collection_group_keyword \in GroupKeywords
CallIndexes(name) == {i \in 1..Len(calls) : calls[i].call = name}
LogCount(msg) == Cardinality({i \in 1..Len(logs) : logs[i].msg = msg})
\* the add loop was entered / the read-back loop was entered
AddsStarted ==
    \/ LogCount("Registering DAAC archive id") > 0
    \/ CallIndexes("PUT archive") # {}
ReadBackStarted == CallIndexes("GET archive") # {}

\* C22: in a register_daac_archiving run with delete set, every archive DELETE comes
\* before every archive add and the adds start only when the DELETE of every
\* collection id of the group has been issued; every read-back GET comes after
\* every DELETE and PUT and the read-back starts only when every id has been added;
\* the DELETEs of all ids are issued whether do_update is set or not.
C22_ArchiveOrder ==
    ArchiveRun /\ args.delete =>
        /\ \A d \in CallIndexes("DELETE archive"), p \in CallIndexes("PUT archive") : d < p
        /\ AddsStarted => BatchTargets("DELETE archive") = TropessIds
        /\ \A w \in CallIndexes("DELETE archive") \cup CallIndexes("PUT archive"),
              g \in CallIndexes("GET archive") : w < g
        /\ ReadBackStarted =>
              /\ BatchTargets("DELETE archive") = TropessIds
              /\ args.do_update => BatchTargets("PUT archive") = TropessIds
              /\ args.script = "package"
                    => LogCount("Registering DAAC archive id") = Len(TropessIds)
        /\ env.delete_fault.at = 0 => BatchTargets("DELETE archive") = TropessIds
        /\ err = NoError => BatchTargets("GET archive") = TropessIds

\* C22 witness: a committing run with delete set over a group of several collection
\* ids in which all three batches went through.
C22_Witness ==
    /\ ArchiveRun /\ args.delete /\ args.do_update /\ err = NoError
    /\ Len(TropessIds) >= 2
    /\ BatchTargets("DELETE archive") = TropessIds
    /\ BatchTargets("PUT archive") = TropessIds
    /\ BatchTargets("GET archive") = TropessIds

(***************************************************************************)
(* The custom-metadata definition that is committed.                       *)
(***************************************************************************)
\* a define_custom_metadata run that reached the commit
CommitRun == op = "define_custom_metadata" /\ "define_custom_metadata" \in CallNames(calls)
CommittedFields == BatchTargets("define_custom_metadata")[1]
\* the collections of the platform that define field f
DefinedIn(f) == {i \in 1..Len(env.platform) : f \in DOMAIN env.platform[i]}
ExistingNames == UNION {DOMAIN env.platform[i] : i \in 1..Len(env.platform)}
\* the maximum of a non-empty set of numbers
Max(S) == CHOOSE x \in S : \A y \in S : y <= x

\* C23: the definition define_custom_metadata commits contains every field name
\* already defined on the platform with the definition the platform has for it, and
\* every field of CUSTOM_METADATA_DEF.
C23_KeepsExisting ==
    CommitRun =>
        /\ \A f \in ExistingNames :
              /\ f \in DOMAIN CommittedFields
              /\ \A i \in DefinedIn(f) : CommittedFields[f] = env.platform[i][f]
        /\ \A f \in DOMAIN CUSTOM_METADATA_DEF : f \in DOMAIN CommittedFields

\* What the committed definition is in every run: it contains every field name
\* defined on the platform and every field of CUSTOM_METADATA_DEF and no other; a field of
\* CUSTOM_METADATA_DEF is committed with the definition of CUSTOM_METADATA_DEF, also
\* when the platform defines it otherwise; any other field is committed with the
\* definition of the last listed collection that defines it.
CommittedFieldsAreUnion ==
    CommitRun =>
        /\ BatchTargets("define_custom_metadata") = <<CommittedFields>>
        /\ DOMAIN CommittedFields = ExistingNames \cup DOMAIN CUSTOM_METADATA_DEF
        /\ \A f \in DOMAIN CUSTOM_METADATA_DEF : CommittedFields[f] = CUSTOM_METADATA_DEF[f]
        /\ \A f \in ExistingNames \ DOMAIN CUSTOM_METADATA_DEF :
              CommittedFields[f] = env.platform[Max(DefinedIn(f))][f]

\* a commit on a platform that defines a field of its own and defines "tag" with
\* another type than CUSTOM_METADATA_DEF does
CommitOverExistingTag ==
    /\ CommitRun /\ err = NoError
    /\ {"tag", "granule_id"} \subseteq ExistingNames
    /\ \E i \in DefinedIn("tag") : env.platform[i]["tag"] # CUSTOM_METADATA_DEF["tag"]
    /\ CommittedFields["tag"] = CUSTOM_METADATA_DEF["tag"]
    /\ "granule_id" \in DOMAIN CommittedFields

(***************************************************************************)
(* Dates written in different formats.                                     *)
(***************************************************************************)
\* two date strings of the command line that denote the same calendar day
SameDay(d1, d2) ==
    /\ d1 \in DOMAIN CalendarDay /\ d2 \in DOMAIN CalendarDay
    /\ CalendarDay[d1] = CalendarDay[d2]
SameDays(r1, r2) ==
    /\ Len(r1) = 2 /\ Len(r2) = 2
    /\ SameDay(r1[1], r2[1]) /\ SameDay(r1[2], r2[2])
IsYmd(s) ==
    /\ Len(s) = 10 /\ CharAt(s, 5) = "-" /\ CharAt(s, 8) = "-"
    /\ \A i \in {1, 2, 3, 4, 6, 7, 9, 10} : IsDigit(CharAt(s, i))
DistinctDays == {DayOf(i) : i \in 1..Len(ScannedFeatures)}

\* C24: a date is normalized to YYYY-MM-DD before it enters a catalog filter or a
\* per-date grouping key: the filter query_data_catalog issued for a date (a date
\* range) is the filter it builds for any other spelling of the same calendar
\* day(s), and in stac_date_status the keys are YYYY-MM-DD strings, one per calendar
\* day, so that features of the same day written differently share one group.
C24_DateNormalization ==
    /\ (CatalogRun /\ QueryIssued /\ args.date_range = NoRange
          /\ args.processing_date \in DOMAIN CalendarDay)
          => /\ IssuedFilter = DateFilter(CalendarDay[args.processing_date])
             /\ IsYmd(CalendarDay[args.processing_date])
             /\ \A d2 \in DateInputs :
                   SameDay(args.processing_date, d2)
                      => query_filter(d2, NoRange).val = IssuedFilter
    /\ (CatalogRun /\ QueryIssued /\ args.date_range # NoRange)
          => \A r2 \in RangeInputs \cup {<<"Jan 5 2024", "01/05/2024">>} :
                SameDays(args.date_range, r2)
                   => query_filter(None, r2).val = IssuedFilter
    /\ (DateStatusRun /\ AllDatesParse)
          => /\ err = NoError
             /\ \A k \in DOMAIN value : IsYmd(k)
             /\ Cardinality(DOMAIN value) = Cardinality(DistinctDays)
             /\ \A i, j \in 1..Len(ScannedFeatures) :
                   DayOf(i) = DayOf(j)
                      => /\ DayOf(i) \in DOMAIN value
                         /\ value[DayOf(i)].count >= Cardinality({i, j})

\* C24 witness: a catalog query for a day written MM/DD/YYYY whose filter carries
\* the day as YYYY-MM-DD.
C24_Witness ==
    /\ CatalogRun /\ QueryIssued /\ args.date_range = NoRange
    /\ args.processing_date = "01/05/2024"
    /\ IssuedFilter = "processing_datetime='2024-01-05'"

(***************************************************************************)
(* py_tropess and the sensor sets of the collection group.                 *)
(***************************************************************************)
\* a py_tropess run of the package on a known collection group
PackagePyTropess ==
    /\ op = "py_tropess" /\ args.script = "package"
    /\ args.collection_group_keyword \in GroupKeywords
NumSensorSets == Len(collection_groups[args.collection_group_keyword].sensor_sets)
AddSensorSetError ==
    Raise("Exception", "Multiple sensor sets for the " \o args.collection_group_keyword
                       \o " collection group, add sensor_set to argument to filter")
\* the sensor-set argument names a sensor set of the tables
SensorSetResolves ==
    ~Failed(_find_sensor_set(collection_groups[args.collection_group_keyword],
                             args.sensor_set_str))
\* the one MUSES collection id of the sensor set the argument names
NamedMusesId ==
    mdps_collection_ids(mdps_project, mdps_venue,
        << "MUSES-" \o _find_sensor_set(collection_groups[args.collection_group_keyword],
                                        args.sensor_set_str).val.short_name
           \o "-" \o collection_groups[args.collection_group_keyword].short_name >>,
        args.muses_collection_version)[1]
DateParses == args.processing_date \in DOMAIN CalendarDay
QueriedIds ==
    LET sel == SelectSeq(calls, LAMBDA c : c.call = "get_collection_data")
    IN [i \in 1..Len(sel) |-> sel[i].target.collection_id]

\* C25: py_tropess without a sensor-set argument goes on to the catalog query only
\* when the collection group has exactly one sensor set; on a group with more than
\* one it fails with the 'add sensor_set' error and has issued no catalog query, no
\* workflow POST and no other call; with a sensor-set argument it never fails with
\* that error and queries one MUSES collection id, the one of the named sensor set.
C25_SensorSetArgument ==
    PackagePyTropess =>
        /\ (args.sensor_set_str = None /\ NumSensorSets > 1)
              => err = AddSensorSetError /\ calls = <<>>
        /\ (args.sensor_set_str = None /\ QueryIssued) => NumSensorSets = 1
        /\ (args.sensor_set_str = None /\ NumSensorSets = 1 /\ DateParses)
              => Len(QueriedIds) = 1
        /\ args.sensor_set_str # None
              => /\ err # AddSensorSetError
                 /\ Len(QueriedIds) <= 1
                 /\ QueryIssued => SensorSetResolves
                 /\ (SensorSetResolves /\ DateParses) => QueriedIds = <<NamedMusesId>>

\* C25 witness: a run without a sensor-set argument on the group with two sensor
\* sets, stopped by the 'add sensor_set' error before any call.
C25_Witness ==
    /\ PackagePyTropess /\ args.sensor_set_str = None /\ args.trigger
    /\ NumSensorSets = 2
    /\ err = AddSensorSetError /\ calls = <<>>

(***************************************************************************)
(* data_ingest and the listing of the ingest path.                         *)
(***************************************************************************)
\* a data_ingest run that got as far as listing the ingest path
IngestListed == op = "data_ingest" /\ CountCalls(calls, "s3 list_objects") > 0
ListedDirs == SeqToSet(env.s3.subdirs)
MissingDirs == {d \in {"L2_Products", "L2_Products_Lite"} : d \notin ListedDirs}
ListingOk == ~env.s3.fail /\ env.s3.contents /\ MissingDirs = {}
\* the URL of the ingest path, as the error messages give it
IngestUrl ==
    args.input_data_base_path \o "/"
    \o (IF args.input_data_ingest_path = "2024/01" THEN "2024/01/" ELSE "run/a/")
FirstMissingDir == IF "L2_Products" \in MissingDirs THEN "L2_Products" ELSE "L2_Products_Lite"
DidNotFind(d) == Raise("Exception", "Did not find " \o d \o " under " \o IngestUrl)
\* the listing is the first call of the run and the run stopped right after it
StoppedAtListing ==
    /\ err # NoError
    /\ Len(calls) = 1 /\ calls[1].call = "s3 list_objects"

\* C26: data_ingest issues no workflow POST unless the listing of the ingest path
\* has contents and holds both L2_Products and L2_Products_Lite; if either is
\* missing the run fails with an error naming a missing directory, before the
\* workflow URL is resolved and before the trigger.
C26_IngestPathChecked ==
    op = "data_ingest" =>
        /\ PostIssued => ListingOk
        /\ (IngestListed /\ ~env.s3.fail /\ env.s3.contents /\ MissingDirs # {})
              => /\ StoppedAtListing
                 /\ \E d \in MissingDirs : err = DidNotFind(d)

\* C26 (amended): data_ingest issues no workflow POST unless the listing of the
\* ingest path has contents and holds both L2_Products and L2_Products_Lite;
\* otherwise the run stops at the listing, before the workflow URL is resolved and
\* before the trigger: with 'Could not find anything at S3 URL' when the listing has
\* no contents, with 'No files or directories found' when it has contents and no
\* sub-directory at all, and else with 'Did not find <dir> under <url>' naming the
\* first expected directory that is missing.
C26_IngestPathErrors ==
    op = "data_ingest" =>
        /\ PostIssued => ListingOk
        /\ \A i \in 1..Len(calls) : calls[i].call = "s3 list_objects" => i = 1
        /\ (IngestListed /\ ~ListingOk) => StoppedAtListing
        /\ (IngestListed /\ ~env.s3.fail /\ ~env.s3.contents)
              => err = Raise("Exception", "Could not find anything at S3 URL: " \o IngestUrl)
        /\ (IngestListed /\ ~env.s3.fail /\ env.s3.contents /\ ListedDirs = {})
              => err = Raise("Exception", "No files or directories found at " \o IngestUrl)
        /\ (IngestListed /\ ~env.s3.fail /\ env.s3.contents /\ ListedDirs # {}
              /\ MissingDirs # {})
              => err = DidNotFind(FirstMissingDir)
        /\ (IngestListed /\ ListingOk /\ env = DefaultEnv
              /\ args.collection_group_keyword \in GroupKeywords)
              => err = NoError /\ (PostIssued <=> args.trigger)

\* C26 witness: a triggering run on a path that holds L2_Products only, stopped at
\* the listing with the error naming L2_Products_Lite.
C26_Witness ==
    /\ IngestListed /\ args.trigger
    /\ env.s3.contents /\ env.s3.subdirs = <<"L2_Products">>
    /\ err = DidNotFind("L2_Products_Lite")
    /\ StoppedAtListing

(***************************************************************************)
(* py_tropess and the files of the input collection.                       *)
(***************************************************************************)
PyTropessRun == op = "py_tropess"
\* the catalog's answer lists an asset whose name ends in .nc
HasNcAsset ==
    /\ "features" \in DOMAIN env.catalog
    /\ \E i \in 1..Len(env.catalog.features) :
          \E fn \in DOMAIN env.catalog.features[i].assets :
             Len(fn) >= 3 /\ SubSeq(fn, Len(fn) - 2, Len(fn)) = ".nc"
\* the run came to resolving the workflow URL (its GET) or to trigger_dag (engine
\* URL lookup, token, POST, or the dry-run notice)
WorkflowReached ==
    \/ CallNames(calls) \cap {"GET", "ssm get_parameter", "get_token", "POST dagRuns"} # {}
    \/ LogCount("Airflow DAG dry-run only") > 0
    \/ LogCount("Using worflow CWL") > 0
    \/ (err.type = "Exception" /\ StartsWith(err.msg, "Could not find process CWL file"))
FoundNoFiles == Raise("Exception", "Found 0 files to process")

\* C27: py_tropess issues a workflow POST only after the catalog query for the input
\* collection has returned an asset whose name ends in .nc; when the answer has no
\* 'features', no feature, or no .nc asset, the run raises right after the query and
\* has neither resolved the workflow URL nor called trigger_dag; a run that issued
\* no catalog query has not done so either.
C27_FilesBeforeTrigger ==
    PyTropessRun =>
        /\ PostIssued
              => /\ HasNcAsset
                 /\ \A q \in CallIndexes("get_collection_data"),
                       p \in CallIndexes("POST dagRuns") : q < p
        /\ WorkflowReached => (QueryIssued /\ HasNcAsset)
        /\ (QueryIssued /\ ~HasNcAsset)
              => /\ calls[Len(calls)].call = "get_collection_data"
                 /\ IF "features" \notin DOMAIN env.catalog
                    THEN err = CatalogQueryError ELSE err = FoundNoFiles
        /\ CountCalls(calls, "get_collection_data") <= 1

\* C27 witness: a triggering run whose query returned a feature with a metadata
\* file only; it raised after the query.
C27_Witness ==
    /\ PyTropessRun /\ args.trigger /\ QueryIssued
    /\ "features" \in DOMAIN env.catalog /\ Len(env.catalog.features) = 1
    /\ ~HasNcAsset
    /\ err = FoundNoFiles /\ ~WorkflowReached

(***************************************************************************)
(* query_data: the queries and what is shown and written after them.       *)
(***************************************************************************)
\* a query_data run on a collection group, with options the command accepts
GroupQueryRun ==
    /\ op = "query_data"
    /\ args.collection_group_keyword \in GroupKeywords
    /\ ~BothSet
\* the collection ids of the run, in the order of the id list
QueryIds ==
    IF args.subparser_name = "muses"
    THEN muses_collection_ids(mdps_project, mdps_venue,
                              collection_groups[args.collection_group_keyword],
                              version_text(args.collection_version), args.sensor_set_str).val
    ELSE tropess_collection_ids(mdps_project, mdps_venue,
                                collection_groups[args.collection_group_keyword],
                                version_text(args.collection_version), args.sensor_set_str).val
FailedQueries == {i \in 1..Len(QueryIds) : "features" \notin DOMAIN env.responses[i]}
\* something was printed / a directory or file was written
Displayed == \E i \in 1..Len(logs) : logs[i].msg \in {"print", "print table"}
Written == CallNames(calls) \cap {"makedirs", "write_file"} # {}
StacFilesWritten ==
    SelectSeq(BatchTargets("write_file"), LAMBDA f : EndsWith(f.name, ".stac"))
OverviewsFor(id) ==
    {i \in 1..Len(logs) : /\ logs[i].msg = "print table"
                          /\ logs[i].data.table = "overview"
                          /\ logs[i].data.collection_id = id}

\* C28: query_data queries the collection ids one after another in the order of the
\* id list and displays or writes only when all queries have returned: the i-th
\* result is paired with the i-th id in the overview printed and in the STAC file
\* written for that id, and when the query of an id fails the queries of the ids
\* after it are not issued, nothing is printed and no directory or file is written.
C28_QueriesBeforeOutput ==
    GroupQueryRun =>
        /\ \E k \in 0..Len(QueryIds) : QueriedIds = SubSeq(QueryIds, 1, k)
        /\ \A q \in CallIndexes("get_collection_data"),
              w \in CallIndexes("makedirs") \cup CallIndexes("write_file") : q < w
        /\ (Displayed \/ Written) => (QueriedIds = QueryIds /\ FailedQueries = {})
        /\ FailedQueries # {}
              => /\ err = CatalogQueryError
                 /\ QueriedIds = SubSeq(QueryIds, 1, Min(FailedQueries))
                 /\ calls[Len(calls)].call = "get_collection_data"
                 /\ ~Displayed /\ ~Written
        /\ \A i \in 1..Len(QueryIds) : \A t \in OverviewsFor(QueryIds[i]) :
              logs[t].data.rows[3] = env.responses[i].features[1].properties.product_stage
        /\ \A n \in 1..Len(StacFilesWritten) :
              /\ n <= Len(QueryIds)
              /\ StacFilesWritten[n].name = args.output_dir \o "/" \o QueryIds[n] \o ".stac"
              /\ StacFilesWritten[n].json = env.responses[n]
        /\ (err = NoError /\ args.write_stac_catalog /\ args.output_dir = "out")
              => Len(StacFilesWritten) = Len(QueryIds)

\* C28 witness: a run over several ids in which the first query returned and a
\* later one failed; nothing was printed or written.
C28_Witness ==
    /\ GroupQueryRun /\ args.write_stac_catalog /\ args.output_dir = "out"
    /\ Len(QueryIds) >= 2 /\ Min(FailedQueries \cup {9}) = 2
    /\ Len(QueriedIds) = 2
    /\ err = CatalogQueryError /\ ~Displayed /\ ~Written

(***************************************************************************)
(* The example job input file.                                             *)
(***************************************************************************)
\* an update_artifacts run that wrote example_job_input.json
ExampleWritten == op = "update_artifacts" /\ "write_file" \in CallNames(calls)
ExampleFile == BatchTargets("write_file")[1].json

\* C29: after update_artifacts the file example_job_input.json holds every key of the
\* generated template, and every key of the file that was there before keeps the
\* value it had.
C29_ExampleJobMerge ==
    ExampleWritten =>
        /\ \A k \in DOMAIN env.template : k \in DOMAIN ExampleFile
        /\ env.example.exists
              => \A k \in DOMAIN env.example.contents :
                    /\ k \in DOMAIN ExampleFile
                    /\ ExampleFile[k] = env.example.contents[k]

\* what update_artifacts writes in every run: the file that was there, as it was,
\* and the template only when there was no file
ExampleFileAsWritten ==
    ExampleWritten =>
        /\ Len(BatchTargets("write_file")) = 1
        /\ ExampleFile = IF env.example.exists THEN env.example.contents ELSE env.template

(***************************************************************************)
(* The check of a deployment file URL.                                     *)
(***************************************************************************)
TriggerRun == op \in {"data_ingest", "py_tropess"}
WorkflowUrl ==
    path_join(DEPLOY_FILES_BASE_URL,
              CWL_WORKFLOW_FILENAME(SUBCOMMAND_DIRS[op], mdps_project, mdps_venue))
GetCount(url) ==
    Cardinality({i \in 1..Len(calls) : calls[i].call = "GET" /\ calls[i].target = url})
\* _verify_file_url fetched the process CWL URL (the second GET of that URL) /
\* the stage_in.json URL
WorkflowUrlVerified == TriggerRun /\ GetCount(WorkflowUrl) = 2
StageInVerified == op = "data_ingest" /\ GetCount(INGEST_STAC_JSON_URL) = 1
InvalidFileUrl(url, status) ==
    Raise("Exception", "Invalid file url: " \o url \o ", get failed with status code: "
                          \o ToString(status))

\* C30: when the GET of _verify_file_url on the process CWL URL or on the
\* stage_in.json URL answers a status other than 200, the run fails with the
\* 'Invalid file url' error naming the URL and the status code and issues no
\* workflow POST; when it answers 200 the run goes on.
C30_InvalidFileUrl ==
    /\ WorkflowUrlVerified =>
          IF env.cwl_get_again # 200
          THEN /\ err = InvalidFileUrl(WorkflowUrl, env.cwl_get_again)
               /\ "POST dagRuns" \notin CallNames(calls)
          ELSE LogCount("Using worflow CWL") = 1
    /\ StageInVerified =>
          IF env.stage_in_get # 200
          THEN /\ err = InvalidFileUrl(INGEST_STAC_JSON_URL, env.stage_in_get)
               /\ "POST dagRuns" \notin CallNames(calls)
          ELSE LogCount("Using STAC JSON") = 1

\* what a failed check does: the run ends at the GET, with the error Python raises
\* while it formats the message, and nothing is posted
FileUrlCheckStops ==
    /\ WorkflowUrlVerified =>
          IF env.cwl_get_again # 200
          THEN /\ err = Raise("AttributeError", "'bool' object has no attribute 'status_code'")
               /\ calls[Len(calls)] = [call |-> "GET", target |-> WorkflowUrl]
               /\ LogCount("Using worflow CWL") = 0
          ELSE LogCount("Using worflow CWL") = 1
    /\ StageInVerified =>
          IF env.stage_in_get # 200
          THEN /\ err = Raise("AttributeError", "'bool' object has no attribute 'status_code'")
               /\ calls[Len(calls)] = [call |-> "GET", target |-> INGEST_STAC_JSON_URL]
               /\ LogCount("Using STAC JSON") = 0
          ELSE LogCount("Using STAC JSON") = 1
\* a triggering ingest whose stage_in.json URL answers 404
StageInRefused ==
    /\ StageInVerified /\ args.trigger /\ env.stage_in_get = 404
    /\ err.type = "AttributeError"

====
